---- MODULE Spec2Model ----
(***************************************************************************)
(* file-butler: the HTTP facade in front of object-storage providers.      *)
(* The model covers server construction (NewServer), the provider registry *)
(* (RegisterProvider / RemoveProvider / ProviderIds / getProvider), the    *)
(* authorization middleware (authorizeRequest) and the request handlers    *)
(* (handleFile, handleUpload, handleDownload, handlePresign,               *)
(* handleMetadata, handleTags, handleList).                                *)
(*                                                                         *)
(* Go strings that the code takes apart (URL paths, tag parameters) are    *)
(* sequences of tokens; strings the code only compares are TLA+ strings.   *)
(* Messages built with fmt are sequences of their fragments.               *)
(***************************************************************************)
EXTENDS Integers, Sequences, FiniteSets, TLC

VARIABLES
    newArgs,    \* the arguments of the NewServer call: [cfg, plugins]
    srv,        \* the *Server NewServer returned, and its error
    providers,  \* Server.providers: provider id -> provider instance
    reg,        \* per caller: the RegisterProvider call in progress
    ret,        \* what the latest completed registry call returned
    hist,       \* per id: the latest completed write of the registry
    rq,         \* the HTTP request being served
    hpc,        \* where its handler stands: idle, authorize, provider, done
    ctx,        \* the handler's locals: p, key, reqType, presignOp
    lookups,    \* how many times the handler called getProvider
    authCall,   \* the Authorize call made for the request
    authRes,    \* what the plugin returned
    provCall,   \* the provider operation invoked for the request
    resp,       \* the response the handler wrote
    pluginCfg,  \* the Config NewPlugin is called with, and how its environment answers
    plug,       \* what NewPlugin returned and the resources it holds
    atp,        \* the built-in allow-types plugin: its arguments, and its latest answer
    run,        \* Server.Run: the caller's context, the clock, the shutdown goroutine
    dl,         \* a download being streamed into the middleware's recorder
    reload,     \* the provider-file reload callback in progress
    inner,      \* the redaction middleware's recorder once the inner handler returned
    sent        \* what the redaction middleware wrote to the client

regVars == <<providers, reg, ret, hist>>

httpVars == <<rq, hpc, ctx, lookups, authCall, authRes, provCall, resp>>

mwVars == <<inner, sent>>

\* The variables of the parts that run beside the registry and the handlers.
pluginVars == <<pluginCfg, plug>>

\* The variables of the parts checked on their own.
sideVars == <<atp, run, dl>>

auxVars == <<mwVars, reload, pluginVars, sideVars>>

vars == <<newArgs, srv, providers, reg, ret, hist,
          rq, hpc, ctx, lookups, authCall, authRes, provCall, resp, pluginCfg, plug, atp, run, dl, reload, inner, sent>>

\* ------------------------------------------------------------------ values

NoErr == <<>>

\* ------------------------------------------------------------ auth plugins

\* A Plugin, as far as the server looks at it: its Name().
Plugin(n) == [name |-> n, nil |-> FALSE]

NilPlugin == [name |-> "", nil |-> TRUE]

\* NewPlugin refuses an empty name, so every plugin handed to NewServer has one.
PluginNames == {"default", "jwt"}

\* Longest plugin list handed to NewServer.
MaxPlugins == 3

RECURSIVE SeqsUpTo(_, _)
SeqsUpTo(S, n) ==
    IF n = 0 THEN {<<>>}
    ELSE LET shorter == SeqsUpTo(S, n - 1)
         IN  shorter \cup {Append(q, x) : q \in {t \in shorter : Len(t) = n - 1}, x \in S}

PluginLists == SeqsUpTo({Plugin(n) : n \in PluginNames}, MaxPlugins)

\* ------------------------------------------------------------ NewServer

ServerConfigs ==
    [Addr : {"", "localhost:8080"},
     AllowRawBody : BOOLEAN,
     DefaultAuthPlugin : {"", "default", "ghost"}]

defaultAuthPluginExists(plugins, defaultAuthPlugin) ==
    \E i \in 1..Len(plugins) : plugins[i].name = defaultAuthPlugin

RECURSIVE uniqueFrom(_, _, _)
uniqueFrom(plugins, i, pluginNames) ==
    IF i > Len(plugins) THEN NoErr
    ELSE IF plugins[i].name \in pluginNames
         THEN <<"plugin names must be unique, found duplicate: ", plugins[i].name>>
         ELSE uniqueFrom(plugins, i + 1, pluginNames \cup {plugins[i].name})

\* A duplicate check that compares each name with the one before it only.
validateAdjacentPluginNames(plugins) ==
    LET dups == {i \in 2..Len(plugins) : plugins[i].name = plugins[i - 1].name}
    IN  IF dups = {} THEN NoErr
        ELSE <<"plugin names must be unique, found duplicate: ",
               plugins[CHOOSE i \in dups : \A j \in dups : i <= j].name>>

validateUniquePluginNames(plugins) == uniqueFrom(plugins, 1, {})

NoServer ==
    [built |-> FALSE, allowRawBody |-> FALSE, defaultAuthPlugin |-> "",
     plugins |-> <<>>, err |-> NoErr]

FailedServer(msg) == [NoServer EXCEPT !.err = msg]

NewServer(serverCfg, plugins) ==
    IF serverCfg.Addr = "" THEN FailedServer(<<"address is required">>)
    ELSE IF Len(plugins) = 0 THEN FailedServer(<<"at least one auth plugin is required">>)
    ELSE IF serverCfg.DefaultAuthPlugin = ""
         THEN FailedServer(<<"default auth plugin is required">>)
    ELSE IF ~defaultAuthPluginExists(plugins, serverCfg.DefaultAuthPlugin)
         THEN FailedServer(<<"default auth plugin not found">>)
    ELSE IF validateUniquePluginNames(plugins) # NoErr
         THEN FailedServer(validateUniquePluginNames(plugins))
    ELSE [built |-> TRUE,
          allowRawBody |-> serverCfg.AllowRawBody,
          defaultAuthPlugin |-> serverCfg.DefaultAuthPlugin,
          plugins |-> plugins,
          err |-> NoErr]

\* (s *Server) setPlugin: the first plugin of s.plugins with that name, or nil.
setPlugin(s, name) ==
    LET hits == {i \in 1..Len(s.plugins) : s.plugins[i].name = name}
    IN  IF hits = {} THEN NilPlugin
        ELSE s.plugins[CHOOSE i \in hits : \A j \in hits : i <= j]

\* ------------------------------------------------------------ providers

\* A provider.Provider as the server sees it: Id(), AuthPlugin(), whether it
\* implements provider.Presigner, and which instance it is (inst 0 is nil).
Provider(id, plg, presign, inst) ==
    [id |-> id, authPlugin |-> plg, presigner |-> presign, inst |-> inst]

NilProvider == Provider("", "", FALSE, 0)

\* The instances callers hand to RegisterProvider.
Pool ==
    { Provider("s3", "", TRUE, 1),
      Provider("s3", "jwt", FALSE, 2),
      Provider("s3", "ghost", FALSE, 3),
      Provider("void", "", FALSE, 4),
      Provider("void", "ghost", FALSE, 5),
      Provider("", "", FALSE, 6),
      NilProvider }

\* The instances loadProviders builds from a changed provider file.
NewPool ==
    { Provider("s3", "", TRUE, 11),
      Provider("s3", "jwt", FALSE, 12),
      Provider("void", "ghost", FALSE, 13),
      Provider("log", "", FALSE, 14) }

IdSpace == {q.id : q \in Pool \cup NewPool}

\* goroutines that call RegisterProvider
Callers == {"c1", "c2"}

\* ------------------------------------------------------------ registry

EmptyRegistry == [k \in {} |-> NilProvider]

\* RegisterProvider without the duplicate check: a second registration overwrites.
RegisterProviderCheckNoDuplicate(s, provs, p) ==
    IF p = NilProvider \/ p.id = "" THEN <<"provider is nil or has no ID">>
    ELSE IF p.authPlugin # "" /\ setPlugin(s, p.authPlugin) = NilPlugin
         THEN <<"auth plugin ", p.authPlugin, " not found for provider ", p.id>>
    ELSE NoErr

\* RegisterProvider without the auth plugin check.
RegisterProviderCheckNoPlugin(s, provs, p) ==
    IF p = NilProvider \/ p.id = "" THEN <<"provider is nil or has no ID">>
    ELSE IF p.id \in DOMAIN provs THEN <<"provider already registered">>
    ELSE NoErr

\* RegisterProvider up to and including the duplicate check under the read lock.
RegisterProviderCheck(s, provs, p) ==
    IF p = NilProvider \/ p.id = "" THEN <<"provider is nil or has no ID">>
    ELSE IF p.authPlugin # "" /\ setPlugin(s, p.authPlugin) = NilPlugin
         THEN <<"auth plugin ", p.authPlugin, " not found for provider ", p.id>>
    ELSE IF p.id \in DOMAIN provs THEN <<"provider already registered">>
    ELSE NoErr

\* An insert that leaves an id that is already in the map as it is.
InsertProviderKeepsFirst(provs, p) ==
    [k \in DOMAIN provs \cup {p.id} |-> IF k \in DOMAIN provs THEN provs[k] ELSE p]

\* s.providers[id] = p
InsertProvider(provs, p) ==
    [k \in DOMAIN provs \cup {p.id} |-> IF k = p.id THEN p ELSE provs[k]]

\* A removal that leaves the map as it is.
DeleteProviderKeeps(provs, id) == provs

\* A removal that resets the whole map.
DeleteProviderClears(provs, id) == EmptyRegistry

\* delete(s.providers, id)
DeleteProvider(provs, id) ==
    [k \in DOMAIN provs \ {id} |-> provs[k]]

ProviderIds(provs) == {provs[k].id : k \in DOMAIN provs}

getProvider(provs, id) ==
    IF id \in DOMAIN provs THEN provs[id] ELSE NilProvider

\* A completed call: what was called, by whom, with what, what it returned, and
\* (after) which write of that id was the latest one when the call was issued.
Returned(op, c, p, id, err, after) ==
    [op |-> op, caller |-> c, p |-> p, id |-> id, err |-> err, after |-> after]

NoReturn == Returned("none", "", NilProvider, "", NoErr, "none")

Idle == [pc |-> "idle", p |-> NilProvider, after |-> "none"]

\* A caller enters RegisterProvider: validation, plugin check, duplicate check.
RegisterCheck(c, p) ==
    /\ srv.built
    /\ reg[c].pc = "idle"
    /\ LET err == RegisterProviderCheck(srv, providers, p)
       IN  IF err # NoErr
           THEN /\ ret' = Returned("Register", c, p, p.id, err, hist[p.id])
                /\ reg' = reg
           ELSE /\ reg' = [reg EXCEPT ![c] =
                                [pc |-> "insert", p |-> p, after |-> hist[p.id]]]
                /\ ret' = ret
    /\ UNCHANGED <<newArgs, srv, providers, hist, httpVars, auxVars>>

\* The caller takes the write lock, inserts and returns nil.
RegisterInsert(c) ==
    /\ reg[c].pc = "insert"
    /\ providers' = InsertProvider(providers, reg[c].p)
    /\ ret' = Returned("Register", c, reg[c].p, reg[c].p.id, NoErr, reg[c].after)
    /\ hist' = [hist EXCEPT ![reg[c].p.id] = "registered"]
    /\ reg' = [reg EXCEPT ![c] = Idle]
    /\ UNCHANGED <<newArgs, srv, httpVars, auxVars>>

RemoveProvider(id) ==
    /\ srv.built
    /\ providers' = DeleteProvider(providers, id)
    /\ ret' = Returned("Remove", "", NilProvider, id, NoErr, hist[id])
    /\ hist' = [hist EXCEPT ![id] = "removed"]
    /\ UNCHANGED <<newArgs, srv, reg, httpVars, auxVars>>

\* ------------------------------------------------------------ strings

HasPrefix(s, prefix) ==
    Len(s) >= Len(prefix) /\ SubSeq(s, 1, Len(prefix)) = prefix

\* A trim that keeps the first path segment of what follows the prefix.
TrimPrefixFirstSegment(s, prefix) ==
    IF ~HasPrefix(s, prefix) THEN s
    ELSE LET rest == SubSeq(s, Len(prefix) + 1, Len(s))
             cuts == {i \in 1..Len(rest) : rest[i] = "/"}
         IN  IF cuts = {} THEN rest
             ELSE SubSeq(rest, 1, (CHOOSE i \in cuts : \A j \in cuts : i <= j) - 1)

\* strings.TrimPrefix
TrimPrefix(s, prefix) ==
    IF HasPrefix(s, prefix) THEN SubSeq(s, Len(prefix) + 1, Len(s)) ELSE s

RECURSIVE SplitFrom(_, _, _, _)
SplitFrom(s, sep, i, cur) ==
    IF i > Len(s) THEN <<cur>>
    ELSE IF s[i] = sep THEN <<cur>> \o SplitFrom(s, sep, i + 1, <<>>)
    ELSE SplitFrom(s, sep, i + 1, Append(cur, s[i]))

\* strings.Split(s, sep) for a separator of one character
Split(s, sep) == SplitFrom(s, sep, 1, <<>>)

\* ------------------------------------------------------------ errors and responses

\* lerr.DetailedError: an HTTP code and a message; NilErr is the nil error.
Lerr(code, msg) == [nil |-> FALSE, code |-> code, msg |-> msg]

NilErr == [nil |-> TRUE, code |-> 0, msg |-> <<>>]

\* lerr.Wrap: fmt.Errorf("%s: %w", message, err)
Wrap(errText, code, message) == Lerr(code, <<message, ": ">> \o errText)

\* (e *DetailedError) Code
Code(err) == IF err.code = 0 THEN 500 ELSE err.code

\* What the handler wrote: status, body, and the place (via) that wrote it.
Resp(code, body, via) == [code |-> code, body |-> body, via |-> via]

NoResp == Resp(0, <<>>, "none")

\* http.Error(w, msg, code)
httpError(msg, code, via) == Resp(code, msg \o <<"\n">>, via)

\* lerr.ToHTTP: WriteHeader(Code(err)); Fprintln(w, err.Error())
ToHTTP(err, via) == Resp(Code(err), err.msg \o <<"\n">>, via)

\* ------------------------------------------------------------ requests

\* An *http.Request as the handlers read it.  path and the tag parameters are
\* sequences of characters ("/" and ":" are characters of their own, a name
\* stands for a run of other characters); body is the bytes on the wire;
\* chunked says that the request carries no Content-Length header.
Request(method, path, op, tags, contentType, chunked, body, ims) ==
    [method |-> method, path |-> path, op |-> op, tags |-> tags,
     contentType |-> contentType, chunked |-> chunked, body |-> body, ims |-> ims]

NoRequest == Request("", <<>>, "", <<>>, <<>>, FALSE, <<>>, "")

\* r.ContentLength: the declared length, which is the length of the body the
\* server reads, or -1 when none is declared.
ContentLength(r) == IF r.chunked THEN -1 ELSE Len(r.body)

Verbs == {"file", "presign", "meta", "tags", "list"}

Methods == {"GET", "PUT", "POST", "DELETE"}

PathOf(verb, providerName, key) == <<"/", verb, "/", providerName, "/">> \o key

\* r.PathValue("provider")
PathValue(path) == path[4]

\* The routes of the mux: which methods reach which handler.  handleFile is
\* registered for every method and answers 405 itself.
RouteMethods(verb) ==
    CASE verb = "file" -> Methods
      [] verb = "presign" -> {"POST"}
      [] OTHER -> {"GET"}

\* http.ServeMux: the handler a request is dispatched to, or the mux's own answer.
Route(method, path) ==
    IF Len(path) < 5 \/ path[1] # "/" \/ path[3] # "/" \/ path[5] # "/" THEN "404"
    ELSE IF path[2] \notin Verbs THEN "404"
    ELSE IF method \notin RouteMethods(path[2]) THEN "405"
    ELSE path[2]

\* ------------------------------------------------------------ handlers, up to Authorize

Ctx(p, key, reqType, presignOp) ==
    [p |-> p, key |-> key, reqType |-> reqType, presignOp |-> presignOp]

NoCtx == Ctx(NilProvider, <<>>, "UNSPECIFIED", "")

\* A handler returned after n registry lookups.
Respond(r, n) == [next |-> "done", resp |-> r, lookups |-> n, c |-> NoCtx]

\* A handler reached its authorizeRequest call.
NeedAuth(c) == [next |-> "authorize", resp |-> NoResp, lookups |-> 1, c |-> c]

\* handleFile whose default case writes 405 and goes on (no return).
handleFileEntryNoReturn(r, provs) ==
    LET reqType == CASE r.method = "GET" -> "DOWNLOAD"
                     [] r.method \in {"PUT", "POST"} -> "UPLOAD"
                     [] OTHER -> "UNSPECIFIED"
        providerName == PathValue(r.path)
        p == getProvider(provs, providerName)
        key == TrimPrefix(r.path, <<"/", "file", "/", providerName, "/">>)
    IN  IF p = NilProvider
        THEN Respond(IF reqType = "UNSPECIFIED"
                     THEN httpError(<<"Method Not Allowed">>, 405, "handler")
                     ELSE httpError(<<"provider not found">>, 404, "handler"), 1)
        ELSE IF key = <<>>
        THEN Respond(IF reqType = "UNSPECIFIED"
                     THEN httpError(<<"Method Not Allowed">>, 405, "handler")
                     ELSE httpError(<<"key is required">>, 400, "handler"), 1)
        ELSE NeedAuth(Ctx(p, key, reqType, ""))

handleFileEntry(r, provs) ==
    LET reqType == CASE r.method = "GET" -> "DOWNLOAD"
                     [] r.method \in {"PUT", "POST"} -> "UPLOAD"
                     [] OTHER -> "UNSPECIFIED"
        providerName == PathValue(r.path)
        p == getProvider(provs, providerName)
        key == TrimPrefix(r.path, <<"/", "file", "/", providerName, "/">>)
    IN  IF reqType = "UNSPECIFIED"
        THEN Respond(httpError(<<"Method Not Allowed">>, 405, "handler"), 0)
        ELSE IF p = NilProvider
        THEN Respond(httpError(<<"provider not found">>, 404, "handler"), 1)
        ELSE IF key = <<>>
        THEN Respond(httpError(<<"key is required">>, 400, "handler"), 1)
        ELSE NeedAuth(Ctx(p, key, reqType, ""))

\* handlePresign that authorizes every presign operation as a download.
handlePresignEntryAlwaysDownload(r, provs) ==
    LET providerName == PathValue(r.path)
        p == getProvider(provs, providerName)
        key == TrimPrefix(r.path, <<"/", "presign", "/", providerName, "/">>)
    IN  IF p = NilProvider
        THEN Respond(httpError(<<"provider not found">>, 404, "handler"), 1)
        ELSE IF ~p.presigner
        THEN Respond(httpError(<<"presigning is not allowed for this provider">>,
                               404, "handler"), 1)
        ELSE IF key = <<>>
        THEN Respond(httpError(<<"key is required">>, 400, "handler"), 1)
        ELSE IF r.op = ""
        THEN Respond(httpError(<<"presign operation is required">>, 400, "handler"), 1)
        ELSE IF r.op = "download" THEN NeedAuth(Ctx(p, key, "DOWNLOAD", "download"))
        ELSE IF r.op = "upload" THEN NeedAuth(Ctx(p, key, "DOWNLOAD", "upload"))
        ELSE Respond(httpError(<<"unsupported presign operation: ", r.op>>,
                               400, "handler"), 1)

\* handlePresign without the check that the provider is a Presigner.
handlePresignEntryNoPresignerCheck(r, provs) ==
    LET providerName == PathValue(r.path)
        p == getProvider(provs, providerName)
        key == TrimPrefix(r.path, <<"/", "presign", "/", providerName, "/">>)
    IN  IF p = NilProvider
        THEN Respond(httpError(<<"provider not found">>, 404, "handler"), 1)
        ELSE IF key = <<>>
        THEN Respond(httpError(<<"key is required">>, 400, "handler"), 1)
        ELSE IF r.op = ""
        THEN Respond(httpError(<<"presign operation is required">>, 400, "handler"), 1)
        ELSE IF r.op = "download" THEN NeedAuth(Ctx(p, key, "DOWNLOAD", "download"))
        ELSE IF r.op = "upload" THEN NeedAuth(Ctx(p, key, "UPLOAD", "upload"))
        ELSE Respond(httpError(<<"unsupported presign operation: ", r.op>>,
                               400, "handler"), 1)

handlePresignEntry(r, provs) ==
    LET providerName == PathValue(r.path)
        p == getProvider(provs, providerName)
        key == TrimPrefix(r.path, <<"/", "presign", "/", providerName, "/">>)
    IN  IF p = NilProvider
        THEN Respond(httpError(<<"provider not found">>, 404, "handler"), 1)
        ELSE IF ~p.presigner
        THEN Respond(httpError(<<"presigning is not allowed for this provider">>,
                               404, "handler"), 1)
        ELSE IF key = <<>>
        THEN Respond(httpError(<<"key is required">>, 400, "handler"), 1)
        ELSE IF r.op = ""
        THEN Respond(httpError(<<"presign operation is required">>, 400, "handler"), 1)
        ELSE IF r.op = "download" THEN NeedAuth(Ctx(p, key, "DOWNLOAD", "download"))
        ELSE IF r.op = "upload" THEN NeedAuth(Ctx(p, key, "UPLOAD", "upload"))
        ELSE Respond(httpError(<<"unsupported presign operation: ", r.op>>,
                               400, "handler"), 1)

handleMetadataEntry(r, provs) ==
    LET providerName == PathValue(r.path)
        p == getProvider(provs, providerName)
        key == TrimPrefix(r.path, <<"/", "meta", "/", providerName, "/">>)
    IN  IF p = NilProvider
        THEN Respond(httpError(<<"provider not found">>, 404, "handler"), 1)
        ELSE IF key = <<>>
        THEN Respond(httpError(<<"key is required">>, 400, "handler"), 1)
        ELSE NeedAuth(Ctx(p, key, "GET_METADATA", ""))

handleTagsEntry(r, provs) ==
    LET providerName == PathValue(r.path)
        p == getProvider(provs, providerName)
        key == TrimPrefix(r.path, <<"/", "tags", "/", providerName, "/">>)
    IN  IF p = NilProvider
        THEN Respond(httpError(<<"provider not found">>, 404, "handler"), 1)
        ELSE IF key = <<>>
        THEN Respond(httpError(<<"key is required">>, 400, "handler"), 1)
        ELSE NeedAuth(Ctx(p, key, "GET_METADATA", ""))

handleListEntry(r, provs) ==
    LET providerName == PathValue(r.path)
        p == getProvider(provs, providerName)
        prefix == TrimPrefix(r.path, <<"/", "list", "/", providerName, "/">>)
    IN  IF p = NilProvider
        THEN Respond(httpError(<<"provider not found">>, 404, "handler"), 1)
        ELSE NeedAuth(Ctx(p, prefix, "LIST", ""))

\* The mux and the handler it picks, up to the handler's authorizeRequest call.
Serve(r, provs) ==
    LET h == Route(r.method, r.path)
    IN  CASE h = "404" -> Respond(httpError(<<"404 page not found">>, 404, "mux"), 0)
          [] h = "405" -> Respond(httpError(<<"Method Not Allowed">>, 405, "mux"), 0)
          [] h = "file" -> handleFileEntry(r, provs)
          [] h = "presign" -> handlePresignEntry(r, provs)
          [] h = "meta" -> handleMetadataEntry(r, provs)
          [] h = "tags" -> handleTagsEntry(r, provs)
          [] h = "list" -> handleListEntry(r, provs)

\* ------------------------------------------------------------ authorizeRequest

\* The plugin authorizeRequest resolves for p: p's own, else the default.
authPluginFor(s, p) ==
    setPlugin(s, IF p.authPlugin = "" THEN s.defaultAuthPlugin ELSE p.authPlugin)

AuthCall(plugin, c) ==
    [set |-> TRUE, plugin |-> plugin, key |-> c.key, provider |-> c.p.id,
     requestType |-> c.reqType]

NoAuthCall ==
    [set |-> FALSE, plugin |-> "", key |-> <<>>, provider |-> "",
     requestType |-> "UNSPECIFIED"]

\* What Authorize returns: nil, a gRPC status error, or another error.
AuthResult(ok, grpc, code, msg) ==
    [set |-> TRUE, ok |-> ok, grpc |-> grpc, code |-> code, msg |-> msg]

NoAuthResult == [set |-> FALSE, ok |-> FALSE, grpc |-> FALSE, code |-> "", msg |-> ""]

AuthOutcomes ==
    { AuthResult(TRUE, TRUE, "OK", ""),
      AuthResult(FALSE, TRUE, "Unauthenticated", "token expired"),
      AuthResult(FALSE, TRUE, "PermissionDenied", "request type is not allowed"),
      AuthResult(FALSE, TRUE, "Unavailable", "plugin is down"),
      AuthResult(FALSE, FALSE, "", "broken pipe") }

\* authorizeRequest that lets an error through when it is not a gRPC status.
authorizeErrorSkipsForeign(out) ==
    IF out.ok THEN NilErr
    ELSE IF ~out.grpc THEN NilErr
    ELSE IF out.code = "Unauthenticated"
         THEN Lerr(401, <<"Unauthenticated: ", out.msg>>)
    ELSE IF out.code = "PermissionDenied"
         THEN Lerr(403, <<"permission denied: ", out.msg>>)
    ELSE Lerr(500, <<"plugin error: ", out.msg>>)

\* authorizeRequest that answers 403 for Unauthenticated too.
authorizeErrorAllForbidden(out) ==
    IF out.ok THEN NilErr
    ELSE IF ~out.grpc
         THEN Lerr(500, <<"plugin error not a grpc status! error=", out.msg>>)
    ELSE IF out.code \in {"Unauthenticated", "PermissionDenied"}
         THEN Lerr(403, <<"permission denied: ", out.msg>>)
    ELSE Lerr(500, <<"plugin error: ", out.msg>>)

\* authorizeRequest after Authorize returned: the error it hands to the handler.
authorizeError(out) ==
    IF out.ok THEN NilErr
    ELSE IF ~out.grpc
         THEN Lerr(500, <<"plugin error not a grpc status! error=", out.msg>>)
    ELSE IF out.code = "Unauthenticated"
         THEN Lerr(401, <<"Unauthenticated: ", out.msg>>)
    ELSE IF out.code = "PermissionDenied"
         THEN Lerr(403, <<"permission denied: ", out.msg>>)
    ELSE Lerr(500, <<"plugin error: ", out.msg>>)

\* ------------------------------------------------------------ upload

\* A tag set handed to the provider: a nil map, or a map from names to values.
Tags(m) == [nil |-> FALSE, m |-> m]

NilTags == [nil |-> TRUE, m |-> [k \in {} |-> <<>>]]

ParsedTags(err, tags) == [err |-> err, tags |-> tags]

RECURSIVE parseTagsFrom(_, _, _)
parseTagsFrom(rawTags, i, parsedTags) ==
    IF i > Len(rawTags) THEN ParsedTags(NilErr, Tags(parsedTags))
    ELSE LET parts == Split(rawTags[i], ":")
         IN  IF Len(parts) # 2
             THEN ParsedTags(Lerr(400, <<"invalid tag format">>), NilTags)
             ELSE IF parts[1] = <<>> \/ parts[2] = <<>>
             THEN ParsedTags(Lerr(400, <<"invalid tag format">>), NilTags)
             ELSE IF parts[1] \in DOMAIN parsedTags
             THEN ParsedTags(Lerr(400, <<"multiple values for key ">> \o parts[1]
                                        \o <<", this is not supported">>), NilTags)
             ELSE parseTagsFrom(rawTags, i + 1,
                      [k \in DOMAIN parsedTags \cup {parts[1]} |->
                          IF k = parts[1] THEN parts[2] ELSE parsedTags[k]])

\* parseTags that keeps the last value of a repeated name.
RECURSIVE parseTagsKeepLastFrom(_, _, _)
parseTagsKeepLastFrom(rawTags, i, parsedTags) ==
    IF i > Len(rawTags) THEN ParsedTags(NilErr, Tags(parsedTags))
    ELSE LET parts == Split(rawTags[i], ":")
         IN  IF Len(parts) # 2
             THEN ParsedTags(Lerr(400, <<"invalid tag format">>), NilTags)
             ELSE IF parts[1] = <<>> \/ parts[2] = <<>>
             THEN ParsedTags(Lerr(400, <<"invalid tag format">>), NilTags)
             ELSE parseTagsKeepLastFrom(rawTags, i + 1,
                      [k \in DOMAIN parsedTags \cup {parts[1]} |->
                          IF k = parts[1] THEN parts[2] ELSE parsedTags[k]])

parseTagsKeepsLast(rawTags) ==
    IF Len(rawTags) = 0 THEN ParsedTags(NilErr, NilTags)
    ELSE parseTagsKeepLastFrom(rawTags, 1, NilTags.m)

\* parseTags whose loop starts at the second parameter.
parseTagsSkipsFirst(rawTags) ==
    IF Len(rawTags) = 0 THEN ParsedTags(NilErr, NilTags)
    ELSE parseTagsFrom(rawTags, 2, NilTags.m)

parseTags(rawTags) ==
    IF Len(rawTags) = 0 THEN ParsedTags(NilErr, NilTags)
    ELSE parseTagsFrom(rawTags, 1, NilTags.m)

\* multipart/form-data on the wire: each part is the delimiter "--b", its
\* Content-Disposition header ("cd" and the field name) and its bytes; "--b--"
\* closes the body.
RECURSIVE EncodeMultipart(_)
EncodeMultipart(parts) ==
    IF parts = <<>> THEN <<"--b--">>
    ELSE <<"--b", "cd", Head(parts).name>> \o Head(parts).data
         \o EncodeMultipart(Tail(parts))

Form(err, parts) == [err |-> err, parts |-> parts]

\* r.ParseMultipartForm: the parts of the body, or an error when the body is
\* not a well-formed multipart body.
RECURSIVE parsePartsFrom(_, _)
parsePartsFrom(body, i) ==
    IF i > Len(body) THEN Form(<<"multipart: NextPart: EOF">>, <<>>)
    ELSE IF body[i] = "--b--" THEN Form(NoErr, <<>>)
    ELSE IF body[i] # "--b" \/ i + 2 > Len(body) \/ body[i + 1] # "cd"
    THEN Form(<<"multipart: NextPart: EOF">>, <<>>)
    ELSE LET ends == {j \in (i + 3)..Len(body) : body[j] \in {"--b", "--b--"}}
         IN  IF ends = {} THEN Form(<<"multipart: NextPart: EOF">>, <<>>)
             ELSE LET j == CHOOSE x \in ends : \A y \in ends : x <= y
                      rest == parsePartsFrom(body, j)
                  IN  IF rest.err # NoErr THEN rest
                      ELSE Form(NoErr,
                                <<[name |-> body[i + 2],
                                   data |-> SubSeq(body, i + 3, j - 1)]>> \o rest.parts)

\* The media type of a Content-Type header (mime.ParseMediaType): the text
\* before its parameters.
MediaType(contentType) == IF contentType = <<>> THEN "" ELSE contentType[1]

\* r.ParseMultipartForm: refuses a request whose media type is not
\* multipart/form-data, else parses the body.
ParseMultipartForm(contentType, body) ==
    IF MediaType(contentType) # "multipart/form-data"
    THEN Form(<<"request Content-Type isn't multipart/form-data">>, <<>>)
    ELSE parsePartsFrom(body, 1)

\* r.FormFile(name): the first part with that field name.
FormFile(parts, name) ==
    LET hits == {i \in 1..Len(parts) : parts[i].name = name}
    IN  IF hits = {} THEN [err |-> <<"http: no such file">>, data |-> <<>>]
        ELSE [err |-> NoErr,
              data |-> parts[CHOOSE i \in hits : \A j \in hits : i <= j].data]

\* Content-Type headers, as the media type followed by the pieces of its
\* parameters; <<>> is a request without the header.
NoType == <<>>

PlainType == <<"text/plain">>

MultipartType == <<"multipart/form-data", "; boundary=b">>

\* Another media type with a parameter that has multipart/form-data in it.
MentionsMultipartType == <<"application/json", "; note=", "multipart/form-data">>

ContentTypes == {NoType, PlainType, MultipartType, MentionsMultipartType}

\* strings.Contains
Contains(s, substr) ==
    \E i \in 1..(Len(s) - Len(substr) + 1) : SubSeq(s, i, i + Len(substr) - 1) = substr

DataSource(err, data) == [err |-> err, data |-> data]

getDataSource(r, allowRawBody) ==
    IF Contains(r.contentType, <<"multipart/form-data">>)
    THEN LET form == ParseMultipartForm(r.contentType, r.body)
         IN  IF form.err # NoErr
             THEN DataSource(Wrap(form.err, 400, "error parsing multipart form:"), <<>>)
             ELSE LET file == FormFile(form.parts, "file")
                  IN  IF file.err # NoErr
                      THEN DataSource(Wrap(file.err, 400, "error getting file from form:"),
                                      <<>>)
                      ELSE DataSource(NilErr, file.data)
    ELSE IF ~allowRawBody
         THEN DataSource(Lerr(415, <<"raw body uploads are not allowed, use multipart form data">>),
                         <<>>)
         ELSE DataSource(NilErr, r.body)

allowUnknownContentLength == TRUE

\* ------------------------------------------------------------ provider calls

PutOptions(contentType, contentLength, tags) ==
    [ContentType |-> contentType, ContentLength |-> contentLength, Tags |-> tags]

NoPutOptions == PutOptions(<<>>, 0, NilTags)

\* A call of a provider operation with its arguments.
Call(op, key, data, putOpts, lastModified, presignOp) ==
    [set |-> TRUE, op |-> op, key |-> key, data |-> data, opts |-> putOpts,
     lastModified |-> lastModified, presignOp |-> presignOp]

NoCall ==
    [set |-> FALSE, op |-> "", key |-> <<>>, data |-> <<>>, opts |-> NoPutOptions,
     lastModified |-> "", presignOp |-> ""]

\* A handler answered without calling the provider.
Answer(r) == [next |-> "done", resp |-> r, call |-> NoCall]

\* A handler called the provider.
Invoke(call) == [next |-> "provider", resp |-> NoResp, call |-> call]

\* handleUpload up to its PutObject call.
handleUpload(r, c, allowRawBody) ==
    LET dataSrc == getDataSource(r, allowRawBody)
        unknown == ContentLength(r) < 0
        contentLength == IF unknown THEN Len(dataSrc.data) ELSE ContentLength(r)
        parsed == parseTags(r.tags)
        contentType == IF r.contentType = <<>> THEN <<"text/plain; charset=utf-8">>
                       ELSE r.contentType
    IN  IF ~dataSrc.err.nil THEN Answer(ToHTTP(dataSrc.err, "handler"))
        ELSE IF ContentLength(r) = 0
        THEN Answer(ToHTTP(Lerr(400, <<"no content to upload">>), "handler"))
        ELSE IF unknown /\ ~allowUnknownContentLength
        THEN Answer(ToHTTP(Lerr(400, <<"content length must be set">>), "handler"))
        ELSE IF ~parsed.err.nil THEN Answer(ToHTTP(parsed.err, "handler"))
        ELSE Invoke(Call("PutObject", c.key, dataSrc.data,
                         PutOptions(contentType, contentLength, parsed.tags), "", ""))

\* handleDownload up to its GetObject call.
handleDownload(r, c) ==
    IF r.ims = "" THEN Invoke(Call("GetObject", c.key, <<>>, NoPutOptions, "", ""))
    ELSE IF r.ims = "not a date"
         THEN Answer(ToHTTP(Lerr(400, <<"invalid If-Modified-Since header">>), "handler"))
    ELSE Invoke(Call("GetObject", c.key, <<>>, NoPutOptions, r.ims, ""))

\* The handler of r from the return of authorizeRequest (err) on.
AfterAuthorize(r, c, err, allowRawBody) ==
    LET h == Route(r.method, r.path)
    IN  IF ~err.nil THEN Answer(ToHTTP(err, "authorize"))
        ELSE CASE h = "file" /\ c.reqType = "DOWNLOAD" -> handleDownload(r, c)
               [] h = "file" /\ c.reqType # "DOWNLOAD" -> handleUpload(r, c, allowRawBody)
               [] h = "presign" ->
                    Invoke(Call("PresignURL", c.key, <<>>, NoPutOptions, "", c.presignOp))
               [] h \in {"meta", "tags"} ->
                    Invoke(Call("GetTags", c.key, <<>>, NoPutOptions, "", ""))
               [] h = "list" ->
                    Invoke(Call("ListObjects", c.key, <<>>, NoPutOptions, "", ""))

\* What a provider operation returns: nil, one of the sentinel errors of
\* package provider, or another error.
ProviderErrors ==
    {"nil", "ErrNotFound", "ErrDenied", "ErrNotModified", "ErrNoPresign", "other"}

\* err.Error()
ErrText(e) ==
    CASE e = "ErrNotFound" -> <<"resource not found">>
      [] e = "ErrDenied" -> <<"access denied">>
      [] e = "ErrNoPresign" -> <<"presigning is not allowed for this provider">>
      [] e = "ErrNotModified" -> <<"resource not modified">>
      [] OTHER -> <<"connection reset by peer">>

\* The object a GetObject returns.
ObjectData == <<"h", "e", "y">>

\* handleFile once GetObject returned e, with no case for ErrNotModified:
\* the sentinel goes to lerr.ToHTTP like any error without a code.
GetObjectAnswerNoNotModified(e) ==
    IF e = "nil" THEN Resp(200, ObjectData, "provider")
    ELSE IF e = "ErrNotFound" THEN ToHTTP(Lerr(404, ErrText(e)), "provider")
    ELSE IF e = "ErrDenied" THEN ToHTTP(Lerr(403, ErrText(e)), "provider")
    ELSE IF e = "ErrNotModified" THEN ToHTTP(Lerr(0, ErrText(e)), "provider")
    ELSE ToHTTP(Lerr(500, <<"error getting object from provider: ">> \o ErrText(e)),
                "provider")

\* handleDownload and handleFile once GetObject returned e.
GetObjectAnswer(e) ==
    IF e = "nil" THEN Resp(200, ObjectData, "provider")
    ELSE IF e = "ErrNotFound" THEN ToHTTP(Lerr(404, ErrText(e)), "provider")
    ELSE IF e = "ErrDenied" THEN ToHTTP(Lerr(403, ErrText(e)), "provider")
    ELSE IF e = "ErrNotModified" THEN Resp(304, <<>>, "provider")
    ELSE ToHTTP(Lerr(500, <<"error getting object from provider: ">> \o ErrText(e)),
                "provider")

\* handleUpload and handleFile once PutObject returned e.
PutObjectAnswer(e) ==
    IF e = "nil" THEN Resp(200, <<>>, "provider")
    ELSE IF e = "ErrDenied"
         THEN ToHTTP(Wrap(ErrText(e), 403, "error uploading object"), "provider")
    ELSE ToHTTP(Lerr(500, ErrText(e)), "provider")

\* handlePresign once PresignURL returned e.
PresignURLAnswer(e) ==
    IF e = "nil" THEN Resp(200, <<"https://signed.example/url">>, "provider")
    ELSE IF e = "ErrDenied" THEN httpError(ErrText(e), 403, "provider")
    ELSE IF e = "ErrNoPresign" THEN httpError(ErrText(e), 404, "provider")
    ELSE httpError(ErrText(e), 500, "provider")

\* handleMetadata (meta) and handleTags once GetTags returned e.
GetTagsAnswer(meta, e) ==
    IF e = "nil"
    THEN Resp(200, IF meta
                   THEN <<"{\"tags\":", "{\"hello\":\"world\"}", "}", "\n">>
                   ELSE <<"{\"hello\":\"world\"}", "\n">>, "provider")
    ELSE IF e = "ErrNotFound" THEN httpError(ErrText(e), 404, "provider")
    ELSE httpError(ErrText(e), 500, "provider")

\* handleList once ListObjects returned e.
ListObjectsAnswer(e) ==
    IF e = "nil" THEN Resp(200, <<"{\"Keys\":[\"k\"]}", "\n">>, "provider")
    ELSE httpError(ErrText(e), 500, "provider")

\* The response of the handler of r once the provider operation returned e.
AfterProvider(r, call, e) ==
    CASE call.op = "GetObject" -> GetObjectAnswer(e)
      [] call.op = "PutObject" -> PutObjectAnswer(e)
      [] call.op = "PresignURL" -> PresignURLAnswer(e)
      [] call.op = "GetTags" -> GetTagsAnswer(Route(r.method, r.path) = "meta", e)
      [] call.op = "ListObjects" -> ListObjectsAnswer(e)

\* ------------------------------------------------------------ NewPlugin

\* plugin.Config: Cmd and Args are lists of words.
PluginConfig(cmd, addr, builtIn, args, name) ==
    [Cmd |-> cmd, Addr |-> addr, BuiltIn |-> builtIn, Args |-> args, Name |-> name]

\* How the world answers NewPlugin: whether the child starts (client.Client),
\* what Dispense returns, whether grpc.Dial succeeds.
PluginEnv(start, dispense, dial) == [start |-> start, dispense |-> dispense, dial |-> dial]

\* The child process of a Cmd plugin.
Child(started, path, args) == [started |-> started, path |-> path, args |-> args]

NoChild == Child(FALSE, "", <<>>)

\* The Plugin value: which wrapper it is, its name, and for the built-in
\* allow-types plugin the request types it allows.
Pg(kind, name, allowed) == [kind |-> kind, name |-> name, allowed |-> allowed]

NilPg == Pg("nil", "", <<>>)

\* Where NewPlugin stands or what it returned: pg, err, and the child and the
\* connection it created on the way; killed and stopped are set by Stop.
Built(pg, err, child, connOpen) ==
    [called |-> TRUE, pg |-> pg, err |-> err, child |-> child, connOpen |-> connOpen,
     killed |-> FALSE, stopped |-> FALSE]

NotCalled ==
    [called |-> FALSE, pg |-> NilPg, err |-> NoErr, child |-> NoChild, connOpen |-> FALSE,
     killed |-> FALSE, stopped |-> FALSE]

\* Stop() of the returned plugin: pluginClientWrapper kills the child,
\* grpcClientWrapper closes the connection, a built-in plugin has nothing to
\* release.
Stop(b) ==
    [b EXCEPT !.stopped = TRUE,
              !.killed = IF b.pg.kind = "cmd" THEN TRUE ELSE b.killed,
              !.connOpen = IF b.pg.kind = "grpc" THEN FALSE ELSE b.connOpen]

RECURSIVE allowedTypesFrom(_, _)
allowedTypesFrom(args, i) ==
    IF i > Len(args) THEN [err |-> NoErr, allowed |-> <<>>]
    ELSE LET reqType == CASE args[i] = "download" -> "DOWNLOAD"
                          [] args[i] = "upload" -> "UPLOAD"
                          [] args[i] \in {"get_tags", "get_metadata"} -> "GET_METADATA"
                          [] args[i] = "list" -> "LIST"
                          [] OTHER -> "UNSPECIFIED"
             rest == allowedTypesFrom(args, i + 1)
         IN  IF reqType = "UNSPECIFIED"
             THEN [err |-> <<"unknown request type: ", args[i]>>, allowed |-> <<>>]
             ELSE IF rest.err # NoErr THEN rest
             ELSE [err |-> NoErr, allowed |-> <<reqType>> \o rest.allowed]

NewAllowTypesPlugin(args) ==
    IF Len(args) = 0
    THEN [err |-> <<"at least one request type is required">>, allowed |-> <<>>]
    ELSE allowedTypesFrom(args, 1)

\* NewPlugin, the Cmd block.
NewPluginCmd(cfg, env) ==
    IF Len(cfg.Cmd) = 0 THEN Built(NilPg, NoErr, NoChild, FALSE)
    ELSE LET args == IF Len(cfg.Cmd) > 1 THEN Tail(cfg.Cmd) \o cfg.Args ELSE <<>>
             child == Child(TRUE, cfg.Cmd[1], args)
         IN  IF env.start = "fail"
             THEN Built(NilPg, <<"failed to create client: ", "exec failed">>, NoChild, FALSE)
             ELSE IF env.dispense = "fail"
             THEN Built(NilPg, <<"failed to dispense plugin: ", "unknown plugin">>,
                        child, FALSE)
             ELSE IF env.dispense = "notAuthorizer"
             THEN Built(NilPg, <<"plugin does not implement Authorizer">>, child, FALSE)
             ELSE Built(Pg("cmd", cfg.Name, <<>>), NoErr, child, FALSE)

\* The Addr block without its check that no plugin was built before.
NewPluginAddrNoExclusive(cfg, env, prev) ==
    IF prev.err # NoErr \/ cfg.Addr = "" THEN prev
    ELSE IF env.dial = "fail"
    THEN Built(NilPg, <<"failed to dial: ", "bad address">>, prev.child, FALSE)
    ELSE Built(Pg("grpc", cfg.Name, <<>>), NoErr, prev.child, TRUE)

\* The Addr block that kills the child before it rejects the configuration.
NewPluginAddrReleases(cfg, env, prev) ==
    IF prev.err # NoErr \/ cfg.Addr = "" THEN prev
    ELSE IF prev.pg # NilPg
    THEN [Built(NilPg, <<"only one of Cmd, Addr or BuiltIn can be set">>,
                prev.child, prev.connOpen) EXCEPT !.killed = TRUE]
    ELSE IF env.dial = "fail"
    THEN Built(NilPg, <<"failed to dial: ", "bad address">>, prev.child, FALSE)
    ELSE Built(Pg("grpc", cfg.Name, <<>>), NoErr, prev.child, TRUE)

\* NewPlugin, the Addr block, entered with what the Cmd block left.
NewPluginAddr(cfg, env, prev) ==
    IF prev.err # NoErr \/ cfg.Addr = "" THEN prev
    ELSE IF prev.pg # NilPg
    THEN Built(NilPg, <<"only one of Cmd, Addr or BuiltIn can be set">>,
               prev.child, prev.connOpen)
    ELSE IF env.dial = "fail"
    THEN Built(NilPg, <<"failed to dial: ", "bad address">>, prev.child, FALSE)
    ELSE Built(Pg("grpc", cfg.Name, <<>>), NoErr, prev.child, TRUE)

\* NewPlugin, the BuiltIn block and the final check, entered with what the
\* Addr block left.
NewPluginBuiltIn(cfg, prev) ==
    IF prev.err # NoErr THEN prev
    ELSE IF cfg.BuiltIn = ""
    THEN IF prev.pg = NilPg
         THEN Built(NilPg, <<"must set either Cmd, Addr or Builtin">>,
                    prev.child, prev.connOpen)
         ELSE prev
    ELSE IF prev.pg # NilPg
    THEN Built(NilPg, <<"only one of Cmd, Addr or BuiltIn can be set">>,
               prev.child, prev.connOpen)
    ELSE IF cfg.BuiltIn = "allow-types"
    THEN LET a == NewAllowTypesPlugin(cfg.Args)
         IN  IF a.err # NoErr
             THEN Built(NilPg, <<"failed to create allow-types plugin: ">> \o a.err,
                        prev.child, prev.connOpen)
             ELSE Built(Pg("builtin", cfg.Name, a.allowed), NoErr,
                        prev.child, prev.connOpen)
    ELSE Built(NilPg, <<"unknown built-in plugin: ", cfg.BuiltIn>>,
               prev.child, prev.connOpen)

NewPlugin(cfg, env) ==
    IF cfg.Name = "" THEN Built(NilPg, <<"name must be set">>, NoChild, FALSE)
    ELSE NewPluginBuiltIn(cfg, NewPluginAddr(cfg, env, NewPluginCmd(cfg, env)))

PluginIdle ==
    /\ pluginCfg = [cfg |-> PluginConfig(<<>>, "", "", <<>>, ""),
                    env |-> PluginEnv("ok", "ok", "ok")]
    /\ plug = NotCalled

\* ------------------------------------------------------------ allow-types plugin

\* authorization.RequestType
RequestTypes == {"UNSPECIFIED", "DOWNLOAD", "UPLOAD", "GET_METADATA", "LIST"}

\* (p *AllowTypesPlugin) Authorize that looks at the first allowed type only.
AllowTypesAuthorizeFirstOnly(allowedRequestTypes, requestType) ==
    IF Len(allowedRequestTypes) > 0 /\ allowedRequestTypes[1] = requestType
    THEN AuthResult(TRUE, TRUE, "OK", "")
    ELSE AuthResult(FALSE, TRUE, "PermissionDenied", "request type is not allowed")

\* (p *AllowTypesPlugin) Authorize
AllowTypesAuthorize(allowedRequestTypes, requestType) ==
    IF \E i \in 1..Len(allowedRequestTypes) : allowedRequestTypes[i] = requestType
    THEN AuthResult(TRUE, TRUE, "OK", "")
    ELSE AuthResult(FALSE, TRUE, "PermissionDenied", "request type is not allowed")

\* The plugin under construction: the arguments, where it stands (new, built,
\* failed), the constructor's error, the allowed types, and the latest
\* Authorize call with its answer.
Atp(args, pc, err, allowed, req, res) ==
    [args |-> args, pc |-> pc, err |-> err, allowed |-> allowed, req |-> req, res |-> res]

AtpIdle == Atp(<<>>, "new", NoErr, <<>>, "UNSPECIFIED", NoAuthResult)

\* ------------------------------------------------------------ Run

\* Server.Run and its shutdown goroutine. Times are whole seconds.
\*   pc         serving, shutdown (inside srv.Shutdown), returned
\*   ctxDone    the context passed to Run is cancelled
\*   now        the clock
\*   deadline   the deadline of shutdownCtx
\*   started    the clock when Shutdown was entered
\*   inflight   requests being served
\*   err        what Shutdown returned
RunState(pc, ctxDone, now, deadline, started, inflight, err) ==
    [pc |-> pc, ctxDone |-> ctxDone, now |-> now, deadline |-> deadline,
     started |-> started, inflight |-> inflight, err |-> err]

RunIdle == RunState("serving", FALSE, 0, 0, 0, 0, NoErr)

ShutdownTimeout == 5

\* shutdownCtx.Done(): a context made by context.WithTimeout(parent, d) is
\* done when its parent is done or its deadline has passed.
shutdownCtxDone(r) == r.ctxDone \/ r.now >= r.deadline

\* shutdownCtx.Err()
shutdownCtxErr(r) ==
    IF r.ctxDone THEN <<"context canceled">> ELSE <<"context deadline exceeded">>

\* ------------------------------------------------------------ redaction middleware

\* httptest.ResponseRecorder after the inner handler returned: its status,
\* its header map and the bytes of its body.
Recorder(code, header, body) == [Code |-> code, Header |-> header, Body |-> body]

NoRecorder == [Code |-> 0, Header |-> {}, Body |-> <<>>]

\* What the client is sent: status, headers, body.
Sent(code, header, body) == [set |-> TRUE, Code |-> code, Header |-> header, Body |-> body]

NoSent == [set |-> FALSE, Code |-> 0, Header |-> {}, Body |-> <<>>]

\* copyHeaders(dst, src) into the header map dst
copyHeaders(dst, src) ==
    {h \in dst : \A g \in src : g.k # h.k} \cup src

\* A middleware that sends the body of the inner handler with every status.
InternalErrorRedacterKeepsBody(rec, responseId) ==
    Sent(rec.Code, copyHeaders({}, rec.Header), rec.Body)

\* InternalErrorRedacter, from the return of the inner handler on; responseId
\* is the number rand.Intn drew.
InternalErrorRedacter(rec, responseId) ==
    IF rec.Code = 500
    THEN Sent(500, copyHeaders({}, rec.Header), <<"internal error, id: ", responseId>>)
    ELSE Sent(rec.Code, copyHeaders({}, rec.Header), rec.Body)

\* ------------------------------------------------------------ streaming a download

\* The httptest.ResponseRecorder the middleware hands to the inner handler.
LiveRecorder(wroteHeader, code, header, body) ==
    [wroteHeader |-> wroteHeader, Code |-> code, Header |-> header, Body |-> body]

\* httptest.NewRecorder()
NewRecorder == LiveRecorder(FALSE, 200, {}, <<>>)

\* (rw *ResponseRecorder) WriteHeader: the first status stays.
RecWriteHeader(rec, code) ==
    IF rec.wroteHeader THEN rec ELSE [rec EXCEPT !.wroteHeader = TRUE, !.Code = code]

\* (rw *ResponseRecorder) Write: an implicit WriteHeader(200), then the bytes.
RecWrite(rec, bytes) ==
    [RecWriteHeader(rec, 200) EXCEPT !.Body = rec.Body \o bytes]

\* w.Header().Set(k, v)
HeaderSet(rec, k, v) ==
    [rec EXCEPT !.Header = copyHeaders(rec.Header, {[k |-> k, v |-> v]})]

\* http.Error(w, msg, code) on the recorder: two headers, WriteHeader, Fprintln.
httpErrorTo(rec, msg, code) ==
    RecWrite(RecWriteHeader(
                 HeaderSet(HeaderSet(rec, "Content-Type", "text/plain; charset=utf-8"),
                           "X-Content-Type-Options", "nosniff"), code),
             msg \o <<"\n">>)

\* A download after GetObject returned: the object's bytes, how many were
\* copied, the read that fails (failAt reads succeed first), and the recorder.
Download(pc, data, read, failAt, rec) ==
    [pc |-> pc, data |-> data, read |-> read, failAt |-> failAt, rec |-> rec]

DlIdle == Download("idle", <<>>, 0, 0, NewRecorder)

SideIdle ==
    /\ atp = AtpIdle
    /\ run = RunIdle
    /\ dl = DlIdle

MwIdle ==
    /\ inner = NoRecorder
    /\ sent = NoSent

\* No reload is running.
ReloadIdle ==
    [pc |-> "idle", file |-> <<>>, old |-> {}, newProviders |-> <<>>, i |-> 0,
     providersToDelete |-> {}, loadErr |-> FALSE, failed |-> {}]

AuxIdle ==
    /\ MwIdle
    /\ reload = ReloadIdle
    /\ PluginIdle
    /\ SideIdle

\* ------------------------------------------------------------ serving a request

HttpIdle ==
    /\ rq = NoRequest
    /\ hpc = "idle"
    /\ ctx = NoCtx
    /\ lookups = 0
    /\ authCall = NoAuthCall
    /\ authRes = NoAuthResult
    /\ provCall = NoCall
    /\ resp = NoResp

\* A request arrives: the mux dispatches it and its handler runs until it
\* answers or calls the plugin's Authorize.
Receive(r) ==
    /\ srv.built
    /\ hpc = "idle"
    /\ rq' = r
    /\ LET step == Serve(r, providers)
           plugin == authPluginFor(srv, step.c.p)
       IN  /\ lookups' = step.lookups
           /\ IF step.next = "done"
              THEN /\ resp' = step.resp
                   /\ hpc' = "done"
                   /\ UNCHANGED <<ctx, authCall>>
              ELSE IF plugin = NilPlugin
              THEN /\ resp' = ToHTTP(Lerr(500, <<"no auth plugin found for provider ",
                                               step.c.p.id>>), "authorize")
                   /\ hpc' = "done"
                   /\ ctx' = step.c
                   /\ UNCHANGED authCall
              ELSE /\ authCall' = AuthCall(plugin.name, step.c)
                   /\ ctx' = step.c
                   /\ hpc' = "authorize"
                   /\ UNCHANGED resp
    /\ UNCHANGED <<newArgs, srv, regVars, authRes, provCall, auxVars>>

\* Authorize returns: authorizeRequest maps the outcome, and on nil the handler
\* goes on until it answers or calls the provider.
AuthReturn(out) ==
    /\ hpc = "authorize"
    /\ authRes' = out
    /\ LET step == AfterAuthorize(rq, ctx, authorizeError(out), srv.allowRawBody)
       IN  /\ hpc' = step.next
           /\ resp' = step.resp
           /\ provCall' = step.call
    /\ UNCHANGED <<newArgs, srv, regVars, rq, ctx, lookups, authCall, auxVars>>

\* The provider operation returns and the handler writes its response.
ProviderReturn(e) ==
    /\ hpc = "provider"
    /\ resp' = AfterProvider(rq, provCall, e)
    /\ hpc' = "done"
    /\ UNCHANGED <<newArgs, srv, regVars, rq, ctx, lookups, authCall, authRes,
                   provCall, auxVars>>

\* The response is out; the next request can be served.
Finish ==
    /\ hpc = "done"
    /\ rq' = NoRequest
    /\ hpc' = "idle"
    /\ ctx' = NoCtx
    /\ lookups' = 0
    /\ authCall' = NoAuthCall
    /\ authRes' = NoAuthResult
    /\ provCall' = NoCall
    /\ resp' = NoResp
    /\ UNCHANGED <<newArgs, srv, regVars, auxVars>>

\* ------------------------------------------------------------ live reload

\* Longest provider list of a changed provider file.
MaxReload == 2

\* One key of the provider file: its type, whether its config parses and its
\* provider can be created, and the provider it yields then.
FileEntry(type, ok, p) == [type |-> type, ok |-> ok, p |-> p]

ProviderTypes == {"void", "log", "s3"}

\* The entries a changed provider file can hold: every provider of NewPool
\* built without error, an entry without type, one of an unknown type, and an
\* s3 entry whose provider cannot be created.
FileEntries ==
    {FileEntry(q.id, TRUE, q) : q \in NewPool}
        \cup {FileEntry("", TRUE, Provider("log", "", FALSE, 15)),
              FileEntry("ftp", TRUE, Provider("void", "", FALSE, 16)),
              FileEntry("s3", FALSE, Provider("s3", "", TRUE, 17))}

\* The files: the keys of a file are distinct.
NewFiles ==
    {f \in SeqsUpTo(FileEntries, MaxReload) :
        \A i, j \in 1..Len(f) : i # j => f[i].p.id # f[j].p.id}

\* loadProviders after the file was read: the first entry that cannot be built
\* ends the load with an error and no provider.
RECURSIVE loadProvidersFrom(_, _, _)
loadProvidersFrom(file, i, built) ==
    IF i > Len(file) THEN [err |-> NoErr, providers |-> built]
    ELSE IF file[i].type = ""
    THEN [err |-> <<"type is required, missing for: ", file[i].p.id>>, providers |-> <<>>]
    ELSE IF file[i].type \notin ProviderTypes
    THEN [err |-> <<"unknown provider type: ", file[i].type>>, providers |-> <<>>]
    ELSE IF ~file[i].ok
    THEN [err |-> <<"unable to create provider ", file[i].p.id>>, providers |-> <<>>]
    ELSE loadProvidersFrom(file, i + 1, Append(built, file[i].p))

loadProviders(file) == loadProvidersFrom(file, 1, <<>>)

providersContains(list, id) == \E i \in 1..Len(list) : list[i].id = id

\* A reload that removes no id.
providersToDeleteNone(provs, newProviders) == {}

\* The ids the reload collects for removal: registered, not in the new list.
providersToDelete(provs, newProviders) ==
    {id \in ProviderIds(provs) : ~providersContains(newProviders, id)}

\* The reload goes on with the provider after newProviders[i].
ReloadAdvance(r) ==
    IF r.i < Len(r.newProviders)
    THEN [r EXCEPT !.pc = "remove", !.i = r.i + 1]
    ELSE [r EXCEPT !.pc = "collect"]

\* The file watcher fires: the provider file cannot be read, loadProviders
\* fails and the callback returns.
ReloadLoadFails ==
    /\ srv.built
    /\ reload.pc = "idle"
    /\ reload' = [ReloadIdle EXCEPT !.pc = "done", !.loadErr = TRUE, !.old = DOMAIN providers]
    /\ UNCHANGED <<newArgs, srv, regVars, httpVars, mwVars, pluginVars, sideVars>>

\* The file watcher fires: loadProviders builds the providers of the file;
\* on its error the callback logs and returns, else the loop starts.
ReloadStart(file) ==
    /\ srv.built
    /\ reload.pc = "idle"
    /\ LET loaded == loadProviders(file)
           r == [ReloadIdle EXCEPT !.file = file, !.old = DOMAIN providers]
       IN  reload' = IF loaded.err # NoErr
                     THEN [r EXCEPT !.pc = "done", !.loadErr = TRUE]
                     ELSE ReloadAdvance([r EXCEPT !.newProviders = loaded.providers])
    /\ UNCHANGED <<newArgs, srv, regVars, httpVars, mwVars, pluginVars, sideVars>>

\* srv.RemoveProvider(p.Id()) for the provider the loop stands at.
ReloadRemove ==
    /\ reload.pc = "remove"
    /\ LET p == reload.newProviders[reload.i]
       IN  /\ providers' = DeleteProvider(providers, p.id)
           /\ ret' = Returned("Remove", "reload", NilProvider, p.id, NoErr, hist[p.id])
           /\ hist' = [hist EXCEPT ![p.id] = "removed"]
    /\ reload' = [reload EXCEPT !.pc = "check"]
    /\ UNCHANGED <<newArgs, srv, reg, httpVars, mwVars, pluginVars, sideVars>>

\* srv.RegisterProvider(p), its checks: an error is logged and the loop goes on.
ReloadRegisterCheck ==
    /\ reload.pc = "check"
    /\ LET p == reload.newProviders[reload.i]
           err == RegisterProviderCheck(srv, providers, p)
       IN  IF err # NoErr
           THEN /\ ret' = Returned("Register", "reload", p, p.id, err, hist[p.id])
                /\ reload' = ReloadAdvance([reload EXCEPT !.failed = @ \cup {p.id}])
           ELSE /\ ret' = ret
                /\ reload' = [reload EXCEPT !.pc = "insert"]
    /\ UNCHANGED <<newArgs, srv, providers, reg, hist, httpVars, mwVars, pluginVars, sideVars>>

\* srv.RegisterProvider(p), its insert under the write lock.
ReloadRegisterInsert ==
    /\ reload.pc = "insert"
    /\ LET p == reload.newProviders[reload.i]
       IN  /\ providers' = InsertProvider(providers, p)
           /\ ret' = Returned("Register", "reload", p, p.id, NoErr, hist[p.id])
           /\ hist' = [hist EXCEPT ![p.id] = "registered"]
    /\ reload' = ReloadAdvance(reload)
    /\ UNCHANGED <<newArgs, srv, reg, httpVars, mwVars, pluginVars, sideVars>>

\* The loop over srv.ProviderIds() that collects the ids to remove.
ReloadCollect ==
    /\ reload.pc = "collect"
    /\ reload' = [reload EXCEPT !.pc = "delete",
                                !.providersToDelete =
                                    providersToDelete(providers, reload.newProviders)]
    /\ UNCHANGED <<newArgs, srv, regVars, httpVars, mwVars, pluginVars, sideVars>>

\* srv.RemoveProvider(id) for one collected id.
ReloadDelete(id) ==
    /\ reload.pc = "delete"
    /\ id \in reload.providersToDelete
    /\ providers' = DeleteProvider(providers, id)
    /\ ret' = Returned("Remove", "reload", NilProvider, id, NoErr, hist[id])
    /\ hist' = [hist EXCEPT ![id] = "removed"]
    /\ reload' = [reload EXCEPT !.providersToDelete = @ \ {id}]
    /\ UNCHANGED <<newArgs, srv, reg, httpVars, mwVars, pluginVars, sideVars>>

\* Nothing is left to remove: the callback returns.
ReloadReturn ==
    /\ reload.pc = "delete"
    /\ reload.providersToDelete = {}
    /\ reload' = [reload EXCEPT !.pc = "done"]
    /\ UNCHANGED <<newArgs, srv, regVars, httpVars, mwVars, pluginVars, sideVars>>

\* The watcher is ready for the next change of the file.
ReloadRearm ==
    /\ reload.pc = "done"
    /\ reload' = ReloadIdle
    /\ UNCHANGED <<newArgs, srv, regVars, httpVars, mwVars, pluginVars, sideVars>>

\* ------------------------------------------------------------ specifications

\* The configurations the registry and the handlers are explored under.
RunConfigs ==
    { [cfg |-> [Addr |-> "localhost:8080", AllowRawBody |-> TRUE,
                DefaultAuthPlugin |-> "default"],
       plugins |-> <<Plugin("default"), Plugin("jwt")>>],
      [cfg |-> [Addr |-> "localhost:8080", AllowRawBody |-> FALSE,
                DefaultAuthPlugin |-> "default"],
       plugins |-> <<Plugin("default")>>] }

RegistryIdle ==
    /\ providers = EmptyRegistry
    /\ reg = [c \in Callers |-> Idle]
    /\ ret = NoReturn
    /\ hist = [i \in IdSpace |-> "none"]

\* NewServer on arbitrary arguments.
InitNewServer ==
    /\ newArgs \in [cfg : ServerConfigs, plugins : PluginLists]
    /\ srv = NoServer
    /\ RegistryIdle
    /\ HttpIdle
    /\ AuxIdle

CallNewServer ==
    /\ ~srv.built
    /\ srv.err = NoErr
    /\ srv' = NewServer(newArgs.cfg, newArgs.plugins)
    /\ UNCHANGED <<newArgs, regVars, httpVars, auxVars>>

NextNewServer == CallNewServer

SpecNewServer == InitNewServer /\ [][NextNewServer]_vars

\* The registry of a constructed server, written by concurrent callers.
InitRegistry ==
    /\ newArgs \in RunConfigs
    /\ srv = NewServer(newArgs.cfg, newArgs.plugins)
    /\ RegistryIdle
    /\ HttpIdle
    /\ AuxIdle

NextRegistry ==
    \/ \E c \in Callers, p \in Pool : RegisterCheck(c, p)
    \/ \E c \in Callers : RegisterInsert(c)
    \/ \E id \in IdSpace : RemoveProvider(id)

SpecRegistry == InitRegistry /\ [][NextRegistry]_vars

\* main: the providers of the configuration are registered one after the
\* other before the server runs; the first failure ends the program.
RECURSIVE Startup(_, _, _, _)
Startup(s, provs, list, i) ==
    IF i > Len(list) THEN [ok |-> TRUE, providers |-> provs]
    ELSE IF RegisterProviderCheck(s, provs, list[i]) # NoErr
         THEN [ok |-> FALSE, providers |-> provs]
         ELSE Startup(s, InsertProvider(provs, list[i]), list, i + 1)

\* Longest provider list of the startup configuration.
MaxStartup == 2

\* The server as main leaves it when it starts to serve.
Started(lists) ==
    /\ newArgs \in RunConfigs
    /\ srv = NewServer(newArgs.cfg, newArgs.plugins)
    /\ \E list \in lists :
          /\ Startup(srv, EmptyRegistry, list, 1).ok
          /\ providers = Startup(srv, EmptyRegistry, list, 1).providers
    /\ reg = [c \in Callers |-> Idle]
    /\ ret = NoReturn
    /\ hist = [i \in IdSpace |-> IF i \in DOMAIN providers THEN "registered" ELSE "none"]
    /\ HttpIdle
    /\ AuxIdle

Keys == {<<>>, <<"k">>, <<"d", "/", "k">>}

ProviderNames == {"s3", "void", "nope"}

Plain(method, path) == Request(method, path, "", <<>>, NoType, FALSE, <<>>, "")

\* The bodies, tags and headers of the uploads sent to a running server.
Uploads(method, path) ==
    { Request(method, path, "", <<>>, NoType, FALSE, <<"h", "i">>, ""),
      Request(method, path, "", <<>>, PlainType, TRUE, <<"h", "i">>, ""),
      Request(method, path, "", <<>>, MentionsMultipartType, FALSE, <<"h", "i">>, ""),
      Request(method, path, "", <<>>, NoType, FALSE, <<>>, ""),
      Request(method, path, "", << <<"a", ":", "1">> >>, NoType, FALSE, <<"h">>, ""),
      Request(method, path, "", << <<"a", "1">> >>, NoType, FALSE, <<"h">>, ""),
      Request(method, path, "", <<>>, MultipartType, FALSE,
              EncodeMultipart(<<[name |-> "file", data |-> <<"h", "i">>]>>), ""),
      Request(method, path, "", <<>>, MultipartType, FALSE,
              EncodeMultipart(<<[name |-> "note", data |-> <<"h">>]>>), ""),
      Request(method, path, "", <<>>, MultipartType, FALSE, <<"h", "i">>, "") }

\* The requests sent to a running server.
Requests ==
    UNION { {Plain(m, PathOf(v, n, k)) : m \in Methods}
            \cup (IF v = "file"
                  THEN {Request("GET", PathOf(v, n, k), "", <<>>, NoType, FALSE, <<>>, ims) :
                            ims \in {"not a date", "Mon, 02 Jan 2006 15:04:05 GMT"}}
                       \cup Uploads("PUT", PathOf(v, n, k))
                       \cup Uploads("POST", PathOf(v, n, k))
                  ELSE {})
            \cup (IF v = "presign"
                  THEN {Request(m, PathOf(v, n, k), op, <<>>, NoType, FALSE, <<>>, "") :
                            m \in Methods, op \in {"download", "upload", "delete"}}
                  ELSE {}) :
            v \in Verbs \cup {"admin"}, n \in ProviderNames, k \in Keys }

Init == Started(SeqsUpTo(Pool, MaxStartup))

Next ==
    \/ \E r \in Requests : Receive(r)
    \/ \E out \in AuthOutcomes : AuthReturn(out)
    \/ \E e \in ProviderErrors : ProviderReturn(e)
    \/ Finish

Spec == Init /\ [][Next]_vars

\* Uploads in depth: one registered provider, every tag list and every body.
RawTags ==
    { <<"a", ":", "1">>, <<"a", ":", "2">>, <<"b", ":", "1">>, <<"a", "b", ":", "1", "2">>,
      <<"a">>, <<":", "1">>, <<"a", ":">>, <<"a", ":", "1", ":", "2">>, <<>> }

\* Most tag parameters of an upload.
MaxTags == 2

\* Most bytes of an uploaded file.
MaxBody == 2

Bodies == SeqsUpTo({"h", "i"}, MaxBody)

FormParts == [name : {"file", "note"}, data : Bodies]

FormBodies ==
    {EncodeMultipart(parts) :
        parts \in {<<>>} \cup {<<a>> : a \in FormParts}
                  \cup {<<a, b>> : a \in FormParts, b \in FormParts}}

UploadRequests ==
    {Request("PUT", PathOf("file", "s3", <<"k">>), "", tags, NoType, FALSE, <<"h", "i">>, "") :
        tags \in SeqsUpTo(RawTags, MaxTags)}
    \cup
    {Request("POST", PathOf("file", "s3", <<"d", "/", "k">>), "", <<>>, ct, chunked, body, "") :
        ct \in ContentTypes, chunked \in BOOLEAN,
        body \in Bodies \cup FormBodies}

InitUpload == Started({<<Provider("s3", "", TRUE, 1)>>})

NextUpload ==
    \/ \E r \in UploadRequests : Receive(r)
    \/ \E out \in AuthOutcomes : AuthReturn(out)
    \/ \E e \in ProviderErrors : ProviderReturn(e)
    \/ Finish

SpecUpload == InitUpload /\ [][NextUpload]_vars

\* The redaction middleware on arbitrary inner responses.
InnerCodes == {200, 304, 400, 403, 404, 499, 500, 501, 503}

InnerHeaders ==
    { {},
      {[k |-> "Content-Type", v |-> "text/plain; charset=utf-8"],
       [k |-> "X-Content-Type-Options", v |-> "nosniff"]},
      {[k |-> "Content-Type", v |-> "application/json"]},
      {[k |-> "Last-Modified", v |-> "Mon, 02 Jan 2006 15:04:05 GMT"],
       [k |-> "Content-Length", v |-> "3"]} }

InnerBodies ==
    {<<>>, <<"access denied", "\n">>, <<"connection reset by peer", "\n">>, ObjectData}

\* The decimal text of the numbers rand.Intn(1000000) draws.
ResponseIds == {"0", "7", "999999"}

InitRedact ==
    /\ newArgs \in RunConfigs
    /\ srv = NewServer(newArgs.cfg, newArgs.plugins)
    /\ RegistryIdle
    /\ HttpIdle
    /\ reload = ReloadIdle
    /\ PluginIdle
    /\ SideIdle
    /\ inner \in {Recorder(c, h, b) : c \in InnerCodes, h \in InnerHeaders, b \in InnerBodies}
    /\ sent = NoSent

\* The inner handler has returned; the middleware answers the client.
Redact(responseId) ==
    /\ ~sent.set
    /\ sent' = InternalErrorRedacter(inner, responseId)
    /\ UNCHANGED <<newArgs, srv, regVars, httpVars, inner, reload, pluginVars, sideVars>>

NextRedact == \E responseId \in ResponseIds : Redact(responseId)

SpecRedact == InitRedact /\ [][NextRedact]_vars

\* Reloads of the provider file on a started server, with no other writer of
\* the registry.
NextReload ==
    \/ ReloadLoadFails
    \/ \E file \in NewFiles : ReloadStart(file)
    \/ ReloadRemove
    \/ ReloadRegisterCheck
    \/ ReloadRegisterInsert
    \/ ReloadCollect
    \/ \E id \in IdSpace : ReloadDelete(id)
    \/ ReloadReturn
    \/ ReloadRearm

SpecReload == Init /\ [][NextReload]_vars

\* Reloads of the provider file while the server answers downloads.
ReloadRequests == {Plain("GET", PathOf("file", n, <<"k">>)) : n \in {"s3", "void"}}

NextReloadServe ==
    \/ NextReload
    \/ \E r \in ReloadRequests : Receive(r)
    \/ \E out \in AuthOutcomes : AuthReturn(out)
    \/ \E e \in ProviderErrors : ProviderReturn(e)
    \/ Finish

SpecReloadServe == Init /\ [][NextReloadServe]_vars

\* NewPlugin on arbitrary configurations and environments.
PluginConfigs ==
    {PluginConfig(cmd, addr, builtIn, args, name) :
        cmd \in {<<>>, <<"authz">>, <<"go", "run", "./plugin">>},
        addr \in {"", "localhost:9000"},
        builtIn \in {"", "allow-types", "allow-all"},
        args \in {<<>>, <<"download">>, <<"upload", "list">>, <<"delete">>},
        name \in {"", "jwt"}}

PluginEnvs ==
    {PluginEnv(start, dispense, dial) :
        start \in {"ok", "fail"}, dispense \in {"ok", "fail", "notAuthorizer"},
        dial \in {"ok", "fail"}}

InitNewPlugin ==
    /\ newArgs \in RunConfigs
    /\ srv = NoServer
    /\ RegistryIdle
    /\ HttpIdle
    /\ MwIdle
    /\ reload = ReloadIdle
    /\ pluginCfg \in [cfg : PluginConfigs, env : PluginEnvs]
    /\ plug = NotCalled
    /\ SideIdle

CallNewPlugin ==
    /\ ~plug.called
    /\ plug' = NewPlugin(pluginCfg.cfg, pluginCfg.env)
    /\ UNCHANGED <<newArgs, srv, regVars, httpVars, mwVars, reload, pluginCfg, sideVars>>

\* main stops the plugin it was given; after an error it was given none.
StopPlugin ==
    /\ plug.called
    /\ plug.pg # NilPg
    /\ ~plug.stopped
    /\ plug' = Stop(plug)
    /\ UNCHANGED <<newArgs, srv, regVars, httpVars, mwVars, reload, pluginCfg, sideVars>>

NextNewPlugin ==
    \/ CallNewPlugin
    \/ StopPlugin

SpecNewPlugin == InitNewPlugin /\ [][NextNewPlugin]_vars

\* The allow-types plugin on arbitrary argument lists and request types.
MaxArgs == 2

ArgTokens == {"download", "upload", "get_tags", "get_metadata", "list", "delete"}

ArgLists == SeqsUpTo(ArgTokens, MaxArgs)

InitAllowTypes ==
    /\ newArgs \in RunConfigs
    /\ srv = NoServer
    /\ RegistryIdle
    /\ HttpIdle
    /\ MwIdle
    /\ reload = ReloadIdle
    /\ PluginIdle
    /\ atp \in {Atp(args, "new", NoErr, <<>>, "UNSPECIFIED", NoAuthResult) : args \in ArgLists}
    /\ run = RunIdle
    /\ dl = DlIdle

CallNewAllowTypesPlugin ==
    /\ atp.pc = "new"
    /\ LET a == NewAllowTypesPlugin(atp.args)
       IN  atp' = [atp EXCEPT !.pc = IF a.err = NoErr THEN "built" ELSE "failed",
                              !.err = a.err, !.allowed = a.allowed]
    /\ UNCHANGED <<newArgs, srv, regVars, httpVars, mwVars, reload, pluginVars, run, dl>>

CallAllowTypesAuthorize(requestType) ==
    /\ atp.pc = "built"
    /\ atp' = [atp EXCEPT !.req = requestType,
                          !.res = AllowTypesAuthorize(atp.allowed, requestType)]
    /\ UNCHANGED <<newArgs, srv, regVars, httpVars, mwVars, reload, pluginVars, run, dl>>

NextAllowTypes ==
    \/ CallNewAllowTypesPlugin
    \/ \E requestType \in RequestTypes : CallAllowTypesAuthorize(requestType)

SpecAllowTypes == InitAllowTypes /\ [][NextAllowTypes]_vars

\* Run with requests in flight, a clock, and a caller that cancels.
MaxClock == 8

MaxInflight == 2

InitRun ==
    /\ newArgs \in RunConfigs
    /\ srv = NoServer
    /\ RegistryIdle
    /\ HttpIdle
    /\ MwIdle
    /\ reload = ReloadIdle
    /\ PluginIdle
    /\ atp = AtpIdle
    /\ run \in {RunState("serving", FALSE, 0, 0, 0, n, NoErr) : n \in 0..MaxInflight}
    /\ dl = DlIdle

RunUnchanged ==
    UNCHANGED <<newArgs, srv, regVars, httpVars, mwVars, reload, pluginVars, atp, dl>>

\* A second passes.
Tick ==
    /\ run.now < MaxClock
    /\ run' = [run EXCEPT !.now = run.now + 1]
    /\ RunUnchanged

\* The listener accepts a request; after Shutdown closed it, none arrive.
RequestArrives ==
    /\ run.pc = "serving"
    /\ run.inflight < MaxInflight
    /\ run' = [run EXCEPT !.inflight = run.inflight + 1]
    /\ RunUnchanged

\* A handler returns.
RequestFinishes ==
    /\ run.inflight > 0
    /\ run' = [run EXCEPT !.inflight = run.inflight - 1]
    /\ RunUnchanged

\* The caller cancels the context it passed to Run.
CancelCtx ==
    /\ ~run.ctxDone
    /\ run' = [run EXCEPT !.ctxDone = TRUE]
    /\ RunUnchanged

\* The goroutine wakes from <-ctx.Done(), derives shutdownCtx from ctx with
\* the timeout and enters srv.Shutdown(shutdownCtx).
ShutdownStarts ==
    /\ run.pc = "serving"
    /\ run.ctxDone
    /\ run' = [run EXCEPT !.pc = "shutdown", !.deadline = run.now + ShutdownTimeout,
                          !.started = run.now]
    /\ RunUnchanged

\* One round of Shutdown's loop: return nil when no connection is busy,
\* return ctx.Err() when the context is done, else wait for the next poll.
ShutdownPolls ==
    /\ run.pc = "shutdown"
    /\ \/ run.inflight = 0
       \/ shutdownCtxDone(run)
    /\ run' = [run EXCEPT !.pc = "returned",
                          !.err = IF run.inflight = 0 THEN NoErr ELSE shutdownCtxErr(run)]
    /\ RunUnchanged

NextRun ==
    \/ Tick
    \/ RequestArrives
    \/ RequestFinishes
    \/ CancelCtx
    \/ ShutdownStarts
    \/ ShutdownPolls

SpecRun == InitRun /\ [][NextRun]_vars

\* Downloads whose stream ends or breaks at any point, behind the middleware.
MaxObject == 3

Objects == SeqsUpTo({"h", "e"}, MaxObject)

\* failAt of a stream that is read to its end.
NoFailure == MaxObject + 1

\* GetObject returned the stream and its last-modified time; the handler has
\* set Last-Modified and is about to call io.Copy.
InitDownload ==
    /\ newArgs \in RunConfigs
    /\ srv = NewServer(newArgs.cfg, newArgs.plugins)
    /\ RegistryIdle
    /\ HttpIdle
    /\ MwIdle
    /\ reload = ReloadIdle
    /\ PluginIdle
    /\ atp = AtpIdle
    /\ run = RunIdle
    /\ dl \in {Download("copy", data, 0, failAt,
                        HeaderSet(NewRecorder, "Last-Modified",
                                  "Mon, 02 Jan 2006 15:04:05 GMT")) :
                  data \in Objects, failAt \in 0..(MaxObject + 1)}
    /\ dl.failAt <= Len(dl.data) \/ dl.failAt = NoFailure

DlUnchanged ==
    UNCHANGED <<newArgs, srv, regVars, httpVars, reload, pluginVars, atp, run>>

\* io.Copy reads the next bytes and writes them to w.
CopyChunk ==
    /\ dl.pc = "copy"
    /\ dl.read < Len(dl.data)
    /\ dl.read # dl.failAt
    /\ dl' = [dl EXCEPT !.read = dl.read + 1,
                        !.rec = RecWrite(dl.rec, <<dl.data[dl.read + 1]>>)]
    /\ UNCHANGED mwVars
    /\ DlUnchanged

\* The stream is at its end: io.Copy returns nil and the handler returns.
CopyEnds ==
    /\ dl.pc = "copy"
    /\ dl.read = Len(dl.data)
    /\ dl.read # dl.failAt
    /\ dl' = [dl EXCEPT !.pc = "returned"]
    /\ inner' = Recorder(dl.rec.Code, dl.rec.Header, dl.rec.Body)
    /\ UNCHANGED sent
    /\ DlUnchanged

\* A read fails: io.Copy returns the error, the handler calls http.Error with
\* 500 and returns.
CopyFails ==
    /\ dl.pc = "copy"
    /\ dl.read = dl.failAt
    /\ LET rec == httpErrorTo(dl.rec, <<"connection reset by peer">>, 500)
       IN  /\ dl' = [dl EXCEPT !.pc = "returned", !.rec = rec]
           /\ inner' = Recorder(rec.Code, rec.Header, rec.Body)
    /\ UNCHANGED sent
    /\ DlUnchanged

\* The middleware answers the client from the recorder.
DownloadRedact(responseId) ==
    /\ dl.pc = "returned"
    /\ Redact(responseId)

NextDownload ==
    \/ CopyChunk
    \/ CopyEnds
    \/ CopyFails
    \/ \E responseId \in ResponseIds : DownloadRedact(responseId)

SpecDownload == InitDownload /\ [][NextDownload]_vars

\* ------------------------------------------------------------ properties

\* C1: a provider operation is invoked for a request only after the plugin's
\* Authorize was called for that same request (same key, same provider) and
\* returned ok; once Authorize returned an error the request is answered and
\* no provider operation is invoked for it.
C1_ProviderOnlyAfterAuthorizeOk ==
    /\ provCall.set =>
          /\ authCall.set /\ authRes.set /\ authRes.ok
          /\ authCall.key = provCall.key
          /\ authCall.provider = ctx.p.id
    /\ (authRes.set /\ ~authRes.ok) => (~provCall.set /\ hpc = "done")
    /\ resp.via = "provider" => provCall.set

C1_Witness ==
    /\ hpc = "provider"
    /\ provCall.op = "PresignURL"
    /\ authRes.ok

\* C2: authorizeRequest maps the plugin's outcome: ok lets the handler go on;
\* gRPC Unauthenticated is answered 401 "Unauthenticated: <msg>", gRPC
\* PermissionDenied 403 "permission denied: <msg>", anything else 500.
C2_AuthorizeOutcomeToHTTP ==
    authRes.set =>
        /\ authRes.ok =>
              /\ resp.via # "authorize"
              /\ hpc = "provider" \/ resp.via \in {"handler", "provider"}
        /\ (authRes.grpc /\ authRes.code = "Unauthenticated") =>
              resp = Resp(401, <<"Unauthenticated: ", authRes.msg, "\n">>, "authorize")
        /\ (authRes.grpc /\ authRes.code = "PermissionDenied") =>
              resp = Resp(403, <<"permission denied: ", authRes.msg, "\n">>, "authorize")
        /\ (~authRes.ok /\ ~(authRes.grpc
                             /\ authRes.code \in {"Unauthenticated", "PermissionDenied"})) =>
              (resp.code = 500 /\ resp.via = "authorize")

C2_Witness ==
    /\ authRes.set /\ authRes.grpc /\ authRes.code = "Unauthenticated"
    /\ resp.code = 401
    /\ rq.method = "PUT"

\* The methods the route table of the specification allows per verb.
AllowedMethods(verb) ==
    CASE verb = "file" -> {"GET", "PUT", "POST"}
      [] verb = "presign" -> {"POST"}
      [] OTHER -> {"GET"}

C4_RegistryTracksWrites ==
    \A i \in IdSpace :
        /\ hist[i] = "registered" =>
              (i \in ProviderIds(providers) /\ getProvider(providers, i) # NilProvider)
        /\ hist[i] = "removed" =>
              (i \notin ProviderIds(providers) /\ getProvider(providers, i) = NilProvider)

C4_Witness ==
    /\ ret.op = "Remove"
    /\ ret.after = "registered"
    /\ \E j \in IdSpace : hist[j] = "registered"

PluginResolves(p) ==
    p.authPlugin = "" \/ \E i \in 1..Len(srv.plugins) : srv.plugins[i].name = p.authPlugin

\* C5 as stated: RegisterProvider of a provider whose id is in the registry
\* fails with "provider already registered" and leaves the registry unchanged.
C5_DuplicateAlwaysAlreadyRegistered ==
    [][\A c \in Callers, p \in Pool :
          (RegisterCheck(c, p) /\ p.id \in DOMAIN providers) =>
              /\ ret' = Returned("Register", c, p, p.id,
                                 <<"provider already registered">>, hist[p.id])
              /\ providers' = providers]_vars

\* C5 amended: RegisterProvider of a provider whose id is in the registry
\* fails and leaves the registry unchanged; the error is "provider already
\* registered" when the provider's auth plugin is empty or resolves, and
\* "auth plugin <name> not found for provider <id>" when it does not.
C5_DuplicateRejected ==
    [][\A c \in Callers, p \in Pool :
          (RegisterCheck(c, p) /\ p.id \in DOMAIN providers) =>
              /\ ret' = Returned("Register", c, p, p.id,
                                 IF PluginResolves(p)
                                 THEN <<"provider already registered">>
                                 ELSE <<"auth plugin ", p.authPlugin,
                                        " not found for provider ", p.id>>,
                                 hist[p.id])
              /\ providers' = providers
              /\ reg' = reg]_vars

C5_Witness ==
    /\ ret.op = "Register"
    /\ ret.err = <<"provider already registered">>
    /\ ret.id \in DOMAIN providers
    /\ providers[ret.id] # ret.p

\* C6: RemoveProvider never fails; removing an absent id, and removing an id
\* a second time in a row, leave the registry as it is; a RegisterProvider of
\* a provider (non-empty id, auth plugin resolving) issued when the latest
\* write of its id is a removal passes its checks, and the insert that follows
\* returns nil with the provider bound to its id.
C6_RemoveIdempotentThenRegister ==
    [][/\ \A i \in IdSpace :
             RemoveProvider(i) =>
                 /\ ret'.err = NoErr
                 /\ i \notin DOMAIN providers'
                 /\ i \notin DOMAIN providers => providers' = providers
                 /\ (ret.op = "Remove" /\ ret.id = i) => providers' = providers
       /\ \A c \in Callers, p \in Pool :
             (RegisterCheck(c, p) /\ hist[p.id] = "removed"
                /\ p # NilProvider /\ p.id # "" /\ PluginResolves(p)) =>
                 reg'[c] = [pc |-> "insert", p |-> p, after |-> "removed"]
       /\ \A c \in Callers :
             RegisterInsert(c) =>
                 /\ ret'.err = NoErr
                 /\ getProvider(providers', reg[c].p.id) = reg[c].p]_vars

C6_Witness ==
    /\ ret.op = "Register"
    /\ ret.err = NoErr
    /\ ret.after = "removed"
    /\ getProvider(providers, ret.id) = ret.p

\* C7: RegisterProvider of a provider naming an auth plugin the server does
\* not have fails and leaves the registry unchanged; a provider naming no
\* plugin passes the checks when its id is free, and once registered it is
\* authorized by the default plugin.
C7_UnknownPluginRejected ==
    /\ [][\A c \in Callers, p \in Pool :
             /\ (RegisterCheck(c, p) /\ p # NilProvider /\ ~PluginResolves(p)) =>
                   /\ ret'.op = "Register" /\ ret'.caller = c /\ ret'.p = p
                   /\ ret'.err # NoErr
                   /\ p.id # "" => ret'.err = <<"auth plugin ", p.authPlugin,
                                               " not found for provider ", p.id>>
                   /\ providers' = providers
                   /\ reg' = reg
             /\ (RegisterCheck(c, p) /\ p # NilProvider /\ p.id # ""
                   /\ p.authPlugin = "" /\ p.id \notin DOMAIN providers) =>
                   reg'[c] = [pc |-> "insert", p |-> p, after |-> hist[p.id]]]_vars
    /\ [](\A i \in DOMAIN providers :
             providers[i].authPlugin = "" =>
                 /\ ~authPluginFor(srv, providers[i]).nil
                 /\ authPluginFor(srv, providers[i]).name = srv.defaultAuthPlugin)

C7_Witness ==
    /\ ret.op = "Register"
    /\ ret.p.authPlugin = "jwt"
    /\ ret.err = <<"auth plugin ", "jwt", " not found for provider ", ret.id>>
    /\ \E i \in DOMAIN providers : providers[i].authPlugin = ""

HasDuplicateName(plugins) ==
    \E i, j \in 1..Len(plugins) : i < j /\ plugins[i].name = plugins[j].name

\* C8: with a non-empty address, NewServer fails for every plugin list with a
\* duplicate name and succeeds, keeping the list and the default, for every
\* list of distinct names that holds the configured default plugin name.
C8_NewServerPluginNames ==
    ((srv.built \/ srv.err # NoErr) /\ newArgs.cfg.Addr # "") =>
        /\ HasDuplicateName(newArgs.plugins) => (~srv.built /\ srv.err # NoErr)
        /\ (~HasDuplicateName(newArgs.plugins)
              /\ \E i \in 1..Len(newArgs.plugins) :
                    newArgs.plugins[i].name = newArgs.cfg.DefaultAuthPlugin) =>
              /\ srv.built /\ srv.err = NoErr
              /\ srv.plugins = newArgs.plugins
              /\ srv.defaultAuthPlugin = newArgs.cfg.DefaultAuthPlugin

C8_Witness ==
    /\ ~srv.built
    /\ srv.err = <<"plugin names must be unique, found duplicate: ", "default">>
    /\ Len(newArgs.plugins) = 3
    /\ newArgs.plugins[2].name = "jwt"

\* C9: the ContentLength of the PutOptions equals the number of bytes of the
\* stream handed to PutObject.
C9_ContentLengthIsStreamLength ==
    (provCall.set /\ provCall.op = "PutObject") =>
        provCall.opts.ContentLength = Len(provCall.data)

ColonsOf(t) == {i \in 1..Len(t) : t[i] = ":"}

\* name:value with exactly one colon and both sides non-empty
WellFormedTag(t) ==
    /\ Cardinality(ColonsOf(t)) = 1
    /\ \A i \in ColonsOf(t) : 1 < i /\ i < Len(t)

TagName(t) == SubSeq(t, 1, (CHOOSE i \in ColonsOf(t) : TRUE) - 1)

TagValue(t) == SubSeq(t, (CHOOSE i \in ColonsOf(t) : TRUE) + 1, Len(t))

GoodTags(tags) ==
    /\ \A i \in 1..Len(tags) : WellFormedTag(tags[i])
    /\ \A i, j \in 1..Len(tags) : i # j => TagName(tags[i]) # TagName(tags[j])

ExpectedTags(tags) ==
    [n \in {TagName(tags[i]) : i \in 1..Len(tags)} |->
        TagValue(tags[CHOOSE i \in 1..Len(tags) : TagName(tags[i]) = n])]

\* C10: when every tag parameter is name:value with distinct names, the
\* upload is not refused for its tags and the Tags handed to PutObject are
\* exactly {name -> value}; with no tag parameter they are the nil map.
C10_TagsPassedExactly ==
    (hpc # "idle" /\ GoodTags(rq.tags)) =>
        /\ (provCall.set /\ provCall.op = "PutObject") =>
              provCall.opts.Tags = IF rq.tags = <<>> THEN NilTags
                                   ELSE Tags(ExpectedTags(rq.tags))
        /\ ~(resp.code = 400 /\ resp.body # <<>>
               /\ resp.body[1] \in {"invalid tag format", "multiple values for key "})

C10_Witness ==
    /\ hpc = "provider"
    /\ provCall.op = "PutObject"
    /\ Len(rq.tags) = 2
    /\ GoodTags(rq.tags)
    /\ Len(TagName(rq.tags[1])) = 2

AllWellFormed(tags) == \A i \in 1..Len(tags) : WellFormedTag(tags[i])

\* The positions whose name already occurred at an earlier position.
RepeatsAt(tags) ==
    {j \in 1..Len(tags) : \E i \in 1..(j - 1) : TagName(tags[i]) = TagName(tags[j])}

FirstRepeatedName(tags) ==
    TagName(tags[CHOOSE j \in RepeatsAt(tags) : \A l \in RepeatsAt(tags) : j <= l])

\* C11: an authorized upload with content whose tag parameters are all
\* name:value and repeat a name k is answered 400 "multiple values for key
\* <k>, this is not supported"; no upload whose tag parameters repeat a name
\* reaches PutObject.
C11_RepeatedTagRejected ==
    (hpc # "idle" /\ AllWellFormed(rq.tags) /\ RepeatsAt(rq.tags) # {}) =>
        /\ ~provCall.set
        /\ (hpc = "done" /\ authRes.set /\ authRes.ok
              /\ getDataSource(rq, srv.allowRawBody).err.nil /\ ContentLength(rq) # 0) =>
              resp = Resp(400, <<"multiple values for key ">>
                                   \o FirstRepeatedName(rq.tags)
                                   \o <<", this is not supported", "\n">>, "handler")

C11_Witness ==
    /\ hpc = "done"
    /\ authRes.ok
    /\ rq.tags = << <<"a", ":", "1">>, <<"a", ":", "2">> >>
    /\ resp.code = 400
    /\ resp.body = <<"multiple values for key ", "a", ", this is not supported", "\n">>

\* C12: with AllowRawBody=false, an authorized upload whose media type is not
\* multipart/form-data is answered 415 "raw body uploads are not allowed, use
\* multipart form data" and never reaches PutObject.
C12_RawBodyRefused ==
    (hpc \in {"provider", "done"} /\ ~srv.allowRawBody
       /\ authRes.set /\ authRes.ok /\ ctx.reqType = "UPLOAD"
       /\ Route(rq.method, rq.path) = "file"
       /\ MediaType(rq.contentType) # "multipart/form-data") =>
        /\ ~provCall.set
        /\ resp = Resp(415, <<"raw body uploads are not allowed, use multipart form data",
                              "\n">>, "handler")

\* C13: when GetObject returns NotModified for a download, the handler answers
\* 304 and writes no body.
C13_NotModifiedIs304 ==
    [][(ProviderReturn("ErrNotModified") /\ provCall.op = "GetObject") =>
          (resp'.code = 304 /\ resp'.body = <<>> /\ hpc' = "done")]_vars

C13_Witness ==
    /\ hpc = "done"
    /\ provCall.op = "GetObject"
    /\ provCall.lastModified # ""
    /\ resp = Resp(304, <<>>, "provider")

\* C14: on every endpoint, when the provider operation returns the Denied
\* error the response status is 403.
C14_DeniedIs403 ==
    [][ProviderReturn("ErrDenied") => resp'.code = 403]_vars

\* A presign request that the mux hands to handlePresign, for a registered
\* provider that is not a Presigner.
PresignWithoutCapability ==
    /\ hpc # "idle"
    /\ Route(rq.method, rq.path) = "presign"
    /\ PathValue(rq.path) \in DOMAIN providers
    /\ ~providers[PathValue(rq.path)].presigner

\* C15 as stated: such a request is answered 404 "presign not allowed for
\* this provider", with no Authorize call and no provider operation.
C15_NoPresignMessageAsStated ==
    PresignWithoutCapability =>
        /\ resp = Resp(404, <<"presign not allowed for this provider", "\n">>, "handler")
        /\ ~authCall.set
        /\ ~provCall.set

\* C15 amended: such a request is answered 404 with the text of ErrNoPresign,
\* "presigning is not allowed for this provider", with no Authorize call and
\* no provider operation.
C15_NoPresignIs404 ==
    PresignWithoutCapability =>
        /\ hpc = "done"
        /\ resp = Resp(404, <<"presigning is not allowed for this provider", "\n">>,
                       "handler")
        /\ ~authCall.set
        /\ ~provCall.set

C15_Witness ==
    /\ PresignWithoutCapability
    /\ rq.op = "download"
    /\ Len(rq.path) > 5
    /\ resp.code = 404
    /\ resp.body[1] = "presigning is not allowed for this provider"

\* A presign request that reaches the op parameter of handlePresign: the
\* provider is registered and a Presigner, the key is not empty.
PresignReachesOp ==
    /\ hpc # "idle"
    /\ Route(rq.method, rq.path) = "presign"
    /\ PathValue(rq.path) \in DOMAIN providers
    /\ providers[PathValue(rq.path)].presigner
    /\ Len(rq.path) > 5

\* C16: op=download is authorized as DOWNLOAD and calls PresignURL with
\* download, op=upload is authorized as UPLOAD and calls PresignURL with
\* upload; a missing op or another value is answered 400 with no Authorize
\* call and no PresignURL call.
C16_PresignOpSelects ==
    PresignReachesOp =>
        /\ rq.op \in {"download", "upload"} =>
              /\ authCall.set
              /\ authCall.requestType = (IF rq.op = "download" THEN "DOWNLOAD" ELSE "UPLOAD")
              /\ (authRes.set /\ authRes.ok) <=> provCall.set
              /\ provCall.set => (provCall.op = "PresignURL" /\ provCall.presignOp = rq.op)
        /\ rq.op \notin {"download", "upload"} =>
              /\ hpc = "done"
              /\ resp.code = 400
              /\ ~authCall.set
              /\ ~provCall.set

C16_Witness ==
    /\ PresignReachesOp
    /\ rq.op = "upload"
    /\ authCall.requestType = "UPLOAD"
    /\ provCall.op = "PresignURL"
    /\ provCall.presignOp = "upload"

\* The text of a request path after /{verb}/{provider}/.
KeyText(path) == SubSeq(path, 6, Len(path))

\* C17: the key handed to Authorize and to the provider operation is the text
\* of the request path after /{verb}/{provider}/, every "/" of it included.
C17_KeyVerbatim ==
    /\ authCall.set => authCall.key = KeyText(rq.path)
    /\ provCall.set => provCall.key = KeyText(rq.path)

C17_Witness ==
    /\ provCall.set
    /\ provCall.op = "GetTags"
    /\ authCall.key = <<"d", "/", "k">>
    /\ provCall.key = <<"d", "/", "k">>

\* C18: the redaction middleware rewrites 500 responses only: for an inner
\* status of 500 the client gets 500 and "internal error, id: <id>" and none
\* of the inner body; for any other inner status the client gets the inner
\* status, headers and body as they are.
C18_RedactsOnly500 ==
    sent.set =>
        IF inner.Code = 500
        THEN /\ sent.Code = 500
             /\ \E id \in ResponseIds : sent.Body = <<"internal error, id: ", id>>
             /\ \A i \in 1..Len(inner.Body), j \in 1..Len(sent.Body) :
                    sent.Body[j] # inner.Body[i]
        ELSE /\ sent.Code = inner.Code
             /\ sent.Header = inner.Header
             /\ sent.Body = inner.Body

C18_Witness ==
    /\ sent.set
    /\ inner.Code = 500
    /\ inner.Body = <<"connection reset by peer", "\n">>
    /\ sent.Code = 500
    /\ sent.Body = <<"internal error, id: ", "7">>

\* C19: when a reload has returned with the providers loaded and every
\* registration successful, the registered ids are the ids of the new list
\* and each is bound to the instance of the new list.
C19_ReloadInstallsNewList ==
    (reload.pc = "done" /\ ~reload.loadErr /\ reload.failed = {}) =>
        /\ {id \in IdSpace : id \in ProviderIds(providers)}
              = {reload.newProviders[i].id : i \in 1..Len(reload.newProviders)}
        /\ DOMAIN providers \subseteq IdSpace
        /\ \A i \in 1..Len(reload.newProviders) :
              getProvider(providers, reload.newProviders[i].id) = reload.newProviders[i]

C19_Witness ==
    /\ reload.pc = "done"
    /\ reload.failed = {}
    /\ Len(reload.newProviders) = 2
    /\ hist["void"] = "removed"
    /\ getProvider(providers, "s3").inst = 11
    /\ getProvider(providers, "log").inst = 14

\* How many of Cmd, Addr and BuiltIn a configuration sets.
SetCount(cfg) ==
    (IF Len(cfg.Cmd) # 0 THEN 1 ELSE 0) + (IF cfg.Addr # "" THEN 1 ELSE 0)
        + (IF cfg.BuiltIn # "" THEN 1 ELSE 0)

\* C20: NewPlugin returns a plugin only for a configuration that sets exactly
\* one of Cmd, Addr and BuiltIn; with more than one set, and with none set,
\* it returns an error and no plugin.
C20_ExactlyOneKind ==
    plug.called =>
        /\ (plug.err = NoErr) <=> (plug.pg # NilPg)
        /\ SetCount(pluginCfg.cfg) # 1 => (plug.err # NoErr /\ plug.pg = NilPg)
        /\ (SetCount(pluginCfg.cfg) = 0 /\ pluginCfg.cfg.Name # "") =>
              plug.err = <<"must set either Cmd, Addr or Builtin">>

C20_Witness ==
    /\ plug.called
    /\ Len(pluginCfg.cfg.Cmd) = 1
    /\ pluginCfg.cfg.Addr # ""
    /\ pluginCfg.cfg.BuiltIn = ""
    /\ plug.child.started
    /\ plug.err = <<"only one of Cmd, Addr or BuiltIn can be set">>

\* The request kind a configuration token stands for.
KindOfToken(token) ==
    CASE token = "download" -> "DOWNLOAD"
      [] token = "upload" -> "UPLOAD"
      [] token \in {"get_metadata", "get_tags"} -> "GET_METADATA"
      [] token = "list" -> "LIST"
      [] OTHER -> "unknown"

ConfiguredKinds(args) == {KindOfToken(args[i]) : i \in 1..Len(args)}

\* C21: constructing the allow-types plugin fails exactly when the argument
\* list is empty or holds an unknown token; a constructed plugin answers ok
\* exactly for the request kinds its tokens stand for, and PermissionDenied
\* "request type is not allowed" for every other kind.
C21_AllowTypesDecides ==
    /\ atp.pc # "new" =>
          (atp.pc = "failed" <=>
              (Len(atp.args) = 0 \/ "unknown" \in ConfiguredKinds(atp.args)))
    /\ atp.res.set =>
          IF atp.req \in ConfiguredKinds(atp.args)
          THEN atp.res.ok
          ELSE atp.res =
                  AuthResult(FALSE, TRUE, "PermissionDenied", "request type is not allowed")

C21_Witness ==
    /\ atp.args = <<"upload", "get_tags">>
    /\ atp.req = "GET_METADATA"
    /\ atp.res.set
    /\ atp.res.ok

\* C22: when Shutdown starts, the context handed to it is still live, so a
\* request in flight gets until the deadline, 5 seconds after the
\* cancellation, before Shutdown gives up.
C22_ShutdownCtxLiveAtStart ==
    /\ run.pc = "shutdown" /\ run.now = run.started => ~shutdownCtxDone(run)
    /\ run.pc = "returned" /\ run.err # NoErr => run.now >= run.deadline

\* An entry of the file that can be built and whose provider passes the
\* checks of RegisterProvider.
Sound(e) == e.type \in ProviderTypes /\ e.ok /\ PluginResolves(e.p)

\* C23: when a reload of a readable file has returned, every entry that can
\* be built and registered is registered with its new instance, whatever
\* failed for the other entries, and no id absent from the file is registered.
C23_ErrorSkipsOnlyThatProvider ==
    (reload.pc = "done" /\ Len(reload.file) > 0) =>
        /\ \A i \in 1..Len(reload.file) :
              Sound(reload.file[i]) =>
                  getProvider(providers, reload.file[i].p.id) = reload.file[i].p
        /\ \A id \in DOMAIN providers :
              \E i \in 1..Len(reload.file) : reload.file[i].p.id = id

\* C24: a download whose copy failed after some bytes of the body were written
\* is answered to the client with status 500.
C24_MidStreamErrorIs500 ==
    (sent.set /\ dl.pc = "returned" /\ dl.read = dl.failAt /\ dl.read > 0) =>
        sent.Code = 500

\* C25: a caller that passed the duplicate check completes its insert with
\* success whatever the registry holds by then, and its instance replaces the
\* one registered under the id in the meantime.
C25_RacingRegistersBothSucceed ==
    [][\A c \in Callers :
          (reg[c].pc = "insert" /\ reg'[c].pc = "idle") =>
              /\ ret'.op = "Register"
              /\ ret'.caller = c
              /\ ret'.err = NoErr
              /\ getProvider(providers', reg[c].p.id) = reg[c].p]_vars

\* One caller has returned success for an id, which is registered, while the
\* other caller, with another instance of the same id, has passed the
\* duplicate check and stands before its insert.
C25_Witness ==
    /\ ret.op = "Register"
    /\ ret.err = NoErr
    /\ ret.caller = "c1"
    /\ ret.id = "s3"
    /\ getProvider(providers, "s3").inst = 1
    /\ reg["c2"].pc = "insert"
    /\ reg["c2"].p.id = "s3"
    /\ reg["c2"].p.inst = 2

\* C26: the child of a subprocess plugin is launched as Cmd[0] with the
\* arguments Cmd[1:] followed by Args, for a Cmd of any length.
C26_ArgsReachChild ==
    (plug.called /\ plug.child.started) =>
        /\ plug.child.path = pluginCfg.cfg.Cmd[1]
        /\ plug.child.args = Tail(pluginCfg.cfg.Cmd) \o pluginCfg.cfg.Args

\* The reload has removed the id its loop stands at and not yet inserted the
\* new instance.
ReloadGap == reload.pc \in {"check", "insert"}

\* C27: between the removal and the re-registration of an id of the new list
\* the id is not in the registry, and a download for that id handled in this
\* gap is answered 404 "provider not found".
C27_ReloadGapAnswers404 ==
    [][(ReloadGap /\ hpc = "idle" /\ hpc' # "idle"
           /\ PathValue(rq'.path) = reload.newProviders[reload.i].id) =>
          /\ getProvider(providers, PathValue(rq'.path)) = NilProvider
          /\ hpc' = "done"
          /\ resp' = httpError(<<"provider not found">>, 404, "handler")]_vars

\* A download of s3, registered before the reload and in the new list, was
\* answered 404 while the reload stands between removal and insert of s3.
C27_Witness ==
    /\ ReloadGap
    /\ reload.newProviders[reload.i].id = "s3"
    /\ "s3" \in reload.old
    /\ reload.failed = {}
    /\ PluginResolves(reload.newProviders[reload.i])
    /\ hpc = "done"
    /\ PathValue(rq.path) = "s3"
    /\ resp = httpError(<<"provider not found">>, 404, "handler")

\* C28: when RegisterProvider fails in a reload for an id of the new list that
\* was registered before, the old instance stays removed: once the reload has
\* returned, the id is not in the registry.
C28_FailedReRegisterLeavesIdAbsent ==
    (reload.pc = "done" /\ ~reload.loadErr) =>
        \A id \in reload.failed :
            /\ providersContains(reload.newProviders, id)
            /\ getProvider(providers, id) = NilProvider
            /\ id \notin ProviderIds(providers)

\* void was registered, the new list names it with a plugin the server does
\* not have, and the reload has returned.
C28_Witness ==
    /\ reload.pc = "done"
    /\ "void" \in reload.old
    /\ "void" \in reload.failed
    /\ ret.op = "Register"
    /\ ret.err = <<"auth plugin ", "ghost", " not found for provider ", "void">>
    /\ hist["void"] = "removed"

\* C29: every provider in the registry selects a plugin the server has (its
\* own AuthPlugin, else the default), and no request for a registered
\* provider is answered from authorizeRequest's "no auth plugin found" branch.
C29_RegisteredProviderHasPlugin ==
    /\ \A id \in DOMAIN providers : authPluginFor(srv, providers[id]) # NilPlugin
    /\ ~(/\ hpc = "done"
         /\ Len(resp.body) > 0
         /\ resp.body[1] = "no auth plugin found for provider ")

\* The reload registered an s3 instance that names the plugin jwt, and a
\* download for it stands in that plugin's Authorize.
C29_Witness ==
    /\ getProvider(providers, "s3").inst = 12
    /\ getProvider(providers, "void") # NilProvider
    /\ hpc = "authorize"
    /\ ctx.p.inst = 12
    /\ authCall.plugin = "jwt"

\* The child process is running.
ChildRuns == plug.child.started /\ ~plug.killed

\* C30: after NewPlugin rejected a configuration for setting more than one of
\* Cmd, Addr and BuiltIn, no plugin was returned to stop, the child started
\* for Cmd is running, and the connection dialed for Addr (set with BuiltIn,
\* without Cmd) is open; this stays so.
C30_RejectedConfigLeaksResources ==
    (plug.called /\ plug.err = <<"only one of Cmd, Addr or BuiltIn can be set">>) =>
        /\ plug.pg = NilPg
        /\ ~plug.stopped
        /\ Len(pluginCfg.cfg.Cmd) # 0 => ChildRuns
        /\ (Len(pluginCfg.cfg.Cmd) = 0 /\ pluginCfg.cfg.Addr # "" /\ pluginCfg.cfg.BuiltIn # "")
              => plug.connOpen

\* Addr and BuiltIn were set without Cmd: the dial succeeded, the
\* configuration was rejected, the connection is open.
C30_Witness ==
    /\ plug.called
    /\ plug.err = <<"only one of Cmd, Addr or BuiltIn can be set">>
    /\ Len(pluginCfg.cfg.Cmd) = 0
    /\ pluginCfg.cfg.BuiltIn = "allow-types"
    /\ plug.connOpen
    /\ ~plug.child.started

====
